---- MODULE Spec2Model ----
(***************************************************************************)
(* proxy-audit: process/socket introspection and proxy classification.     *)
(*                                                                         *)
(* The module models src/src/scan.rs (ScanContext, scan_all_processes,     *)
(* determine_proxy_mode, check_port_match, is_tun_virtual_ip,              *)
(* probe_exit_ip) and src/src/macos/libproc.rs (list_all_pids and the      *)
(* per-process OS calls), and states the properties of the specification   *)
(* against that model.                                                     *)
(***************************************************************************)
EXTENDS Integers, Sequences, FiniteSets, TLC

\* ------------------------------------------------------------------------
\* Option<T>: None is the empty tuple, Some(x) the one-element tuple.
\* ------------------------------------------------------------------------
None == <<>>
Some(x) == <<x>>
IsSome(o) == o # <<>>
Unwrap(o) == o[1]

\* ------------------------------------------------------------------------
\* std::net::IpAddr: V4 carries four octets, V6 eight 16-bit groups.
\* ------------------------------------------------------------------------
V4(a, b, c, d) == [v |-> 4, o |-> <<a, b, c, d>>]
V6(h) == [v |-> 6, o |-> h]

is_loopback(ip) ==
    IF ip.v = 4 THEN ip.o[1] = 127
    ELSE ip.o = <<0, 0, 0, 0, 0, 0, 0, 1>>

is_unspecified(ip) ==
    IF ip.v = 4 THEN ip.o = <<0, 0, 0, 0>>
    ELSE ip.o = <<0, 0, 0, 0, 0, 0, 0, 0>>

\* Variant of is_tun_virtual_ip that recognises 198.18.0.0/16 only.
is_tun_virtual_ip_slash16(ip) ==
    IF ip.v = 4 THEN ip.o[1] = 198 /\ ip.o[2] = 18 ELSE FALSE

\* scan.rs is_tun_virtual_ip: IPv4 198.18.x.x or 198.19.x.x; never IPv6.
is_tun_virtual_ip(ip) ==
    IF ip.v = 4
    THEN ip.o[1] = 198 /\ (ip.o[2] = 18 \/ ip.o[2] = 19)
    ELSE FALSE

\* Variant of swap_bytes that moves the low byte up and drops the high byte.
swap_bytes_low_byte_only(p) == (p % 256) * 256

\* u16::swap_bytes
swap_bytes(p) == (p % 256) * 256 + (p \div 256)

\* Variant of check_port_match that compares in one byte order only.
check_port_match_exact(port, targets) == port \in targets

\* scan.rs check_port_match: the port itself, or its byte-swapped value.
check_port_match(port, targets) ==
    IF port \in targets THEN TRUE
    ELSE IF swap_bytes(port) \in targets THEN TRUE
    ELSE FALSE

\* libproc.rs TcpState::is_listening
is_listening(state) == state = "Listen"

\* scutil.rs is_vpn_interface: the interface name starts with "utun".
\* Interface names are sequences of characters.
is_vpn_interface(iface) ==
    /\ Len(iface) >= 4
    /\ SubSeq(iface, 1, 4) = <<"u", "t", "u", "n">>

\* ------------------------------------------------------------------------
\* Addresses, ports and sockets the model draws from.
\* ------------------------------------------------------------------------
Lo4 == V4(127, 0, 0, 1)
Lo6 == V6(<<0, 0, 0, 0, 0, 0, 0, 1>>)
Unspec4 == V4(0, 0, 0, 0)
TunIp == V4(198, 18, 0, 5)
NearTunIp == V4(198, 17, 0, 5)
PublicIp == V4(93, 184, 216, 34)
LanIp == V4(192, 168, 1, 2)
ExitIpA == V4(203, 0, 113, 7)
ExitIpB == V4(198, 51, 100, 9)

\* Ports the model draws from: a proxy port, another loopback port, a web
\* port and an ephemeral local port.
PortValues == <<7890, 8080, 443, 50000>>
ProxyPort == PortValues[1]
SwappedProxyPort == swap_bytes(ProxyPort)
OtherPort == PortValues[2]
WebPort == PortValues[3]
EphemeralPort == PortValues[4]

SocketInfo(la, lp, ra, rp, proto, st) ==
    [local_addr |-> la, local_port |-> lp, remote_addr |-> ra,
     remote_port |-> rp, protocol |-> proto, tcp_state |-> st]

Established == Some("Established")
Listen == Some("Listen")

ConnSysProxy == SocketInfo(Lo4, EphemeralPort, Lo4, ProxyPort, "Tcp", Established)
ConnSwapped == SocketInfo(Lo4, EphemeralPort, Lo4, SwappedProxyPort, "Tcp", Established)
ConnLocal == SocketInfo(Lo4, EphemeralPort, Lo4, OtherPort, "Tcp", Established)
ConnLocal6 == SocketInfo(Lo6, EphemeralPort, Lo6, OtherPort, "Tcp", Established)
ConnTunRemote == SocketInfo(LanIp, EphemeralPort, TunIp, WebPort, "Tcp", Established)
ConnTunLocal == SocketInfo(TunIp, EphemeralPort, PublicIp, WebPort, "Udp", None)
ConnRemote == SocketInfo(LanIp, EphemeralPort, PublicIp, WebPort, "Tcp", Established)
ConnNearTun == SocketInfo(LanIp, EphemeralPort, NearTunIp, WebPort, "Tcp", Established)
SockListen == SocketInfo(Lo4, OtherPort, Unspec4, 0, "Tcp", Listen)
SockListenProxy == SocketInfo(Lo4, ProxyPort, Unspec4, 0, "Tcp", Listen)
SockUdpUnbound == SocketInfo(Unspec4, EphemeralPort, Unspec4, 0, "Udp", None)
\* A LISTEN-state socket whose record carries a remote endpoint.
SockListenConnected == SocketInfo(Lo4, OtherPort, Lo4, ProxyPort, "Tcp", Listen)

\* Sockets that must not enter the ListenPortMap: a listener on the wildcard
\* address, a listener on a LAN address, a UDP socket bound to loopback.
SockListenWildcard == SocketInfo(Unspec4, WebPort, Unspec4, 0, "Tcp", Listen)
SockListenLan == SocketInfo(LanIp, ProxyPort, Unspec4, 0, "Tcp", Listen)
SockUdpLoopback == SocketInfo(Lo4, EphemeralPort, Unspec4, 0, "Udp", None)

\* Sockets a process under classification may hold.
SocketUniverse ==
    {ConnSysProxy, ConnSwapped, ConnLocal, ConnTunRemote, ConnTunLocal,
     ConnRemote, SockListen, SockUdpUnbound, SockListenConnected}

RECURSIVE SeqsUpTo(_, _)
SeqsUpTo(S, n) ==
    IF n = 0 THEN {<<>>}
    ELSE LET shorter == SeqsUpTo(S, n - 1)
         IN shorter \cup {Append(q, x) : q \in {r \in shorter : Len(r) = n - 1}, x \in S}

\* ------------------------------------------------------------------------
\* Configuration values (scutil.rs ProxyServer / SystemProxy, geo GeoDb).
\* ------------------------------------------------------------------------
\* A host is its text; an IP literal also carries the address it parses to
\* (host.parse::<IpAddr>()), a name parses to nothing.
HostIp(ip) == [name |-> "", ip |-> Some(ip)]
HostName(n) == [name |-> n, ip |-> None]
parse_ip(host) == host.ip

ProxyServer(host, port) == [host |-> host, port |-> port]

SystemProxy(h, hs, s) == [http |-> h, https |-> hs, socks |-> s]

NoSystemProxy == SystemProxy(None, None, None)
HttpProxy == SystemProxy(Some(ProxyServer(HostIp(Lo4), ProxyPort)), None, None)
NamedHttpsProxy ==
    SystemProxy(None, Some(ProxyServer(HostName("proxy.local"), ProxyPort)), None)
SocksAndHttpProxy ==
    SystemProxy(Some(ProxyServer(HostIp(Lo4), ProxyPort)), None,
                Some(ProxyServer(HostIp(Lo4), OtherPort)))

SystemProxyConfigs == {NoSystemProxy, HttpProxy, NamedHttpsProxy, SocksAndHttpProxy}

Utun4 == <<"u", "t", "u", "n", "4">>
En0 == <<"e", "n", "0">>
Interfaces == {Utun4, En0}

\* ListenPortMap: port -> (pid, name)
Owner(pid, name) == [pid |-> pid, name |-> name]
OwnerPids == <<50, 51>>
ClashPid == OwnerPids[1]
NoListeners == [p \in {} |-> Owner(0, "")]
ClashListens == [p \in {ProxyPort} |-> Owner(ClashPid, "clash")]
AllListen ==
    [p \in {ProxyPort, SwappedProxyPort, OtherPort} |->
        IF p = OtherPort THEN Owner(OwnerPids[2], "v2ray") ELSE Owner(ClashPid, "clash")]
ListenPortMaps == {NoListeners, ClashListens, AllListen}

\* GeoDb::lookup: the table has an entry for ExitIpA and none for ExitIpB.
GeoTable == [ip \in {ExitIpA} |-> "US United States"]
GeoDbs == {None, Some(GeoTable)}
geo_lookup(db, ip) == IF ip \in DOMAIN db THEN Some(db[ip]) ELSE None

\* What one probe attempt (try_probe_with_proxy) can return.
ProbeOutcomes == {None, Some(ExitIpA), Some(ExitIpB)}

\* ------------------------------------------------------------------------
\* Bounds
\* ------------------------------------------------------------------------
NTasks == 3
MaxSockets == 2
NPids == 2
\* The leading slots of the PID buffer whose contents are followed.
MaxPidSlots == 2
Tasks == 1 .. NTasks
\* The processes of a scan; each is classified by the task of its number.
ScanPids == 1 .. NPids

\* ------------------------------------------------------------------------
\* State
\* ------------------------------------------------------------------------
VARIABLES
    \* ScanContext
    system_proxy, default_iface, is_vpn, listen_ports, geo_db, probe_exit,
    exit_ip_cache,
    \* the task holding the mutex of the ExitIpCache, if any
    cache_lock,
    \* one classification task per process: position, its socket list, the
    \* locals of determine_proxy_mode and what it returned
    pc, sockets, conn, cache_key, probe_result, exit_ip_of, ret,
    \* history: probe_exit_ip invocations and cache inserts of each task, and
    \* the calls of try_probe_with_proxy it made with their outcomes
    probes, inserts, attempts,
    \* scan_all_processes: filters, position, the enumerated PIDs, what each
    \* per-process closure yielded, the returned list
    only_routed, target_pid, scan_pc, pids, emitted, results,
    \* what the OS answers for each process
    os_name, os_path, os_sockets,
    \* list_all_pids: position, buffer length, retries so far, last return,
    \* the leading slots of the buffer, the returned list
    lp_pc, lp_len, lp_retries, lp_ret, lp_buf, lp_pids,
    \* list_process_sockets of one process: position, the descriptor table the
    \* OS holds for it, the two returns of the descriptor listing, the length
    \* of the buffer, the descriptors returned, the sockets returned
    fd_pc, fd_table, fd_needed, fd_cap, fd_ret, fd_fds, fd_socks,
    \* RuleFileManager: the format whose policy files are followed, the
    \* content of its three policy files, the policy of the most recent
    \* successful add_rule of each process name, the number of calls so far
    \* and the last call
    rule_format, rule_files, rule_last, rule_calls, rule_call

ctxVars == <<system_proxy, default_iface, is_vpn, listen_ports, geo_db, probe_exit>>
taskVars == <<pc, sockets, conn, cache_key, probe_result, exit_ip_of, ret>>
histVars == <<probes, inserts, attempts>>
scanVars == <<only_routed, target_pid, scan_pc, pids, emitted, results>>
osVars == <<os_name, os_path, os_sockets>>
lpVars == <<lp_pc, lp_len, lp_retries, lp_ret, lp_buf, lp_pids>>
decVars == <<fd_pc, fd_table, fd_needed, fd_cap, fd_ret, fd_fds, fd_socks>>
ruleVars == <<rule_format, rule_files, rule_last, rule_calls, rule_call>>
outerVars == <<scanVars, osVars, lpVars, decVars, ruleVars>>
vars == <<ctxVars, exit_ip_cache, cache_lock, taskVars, histVars, outerVars>>

\* ------------------------------------------------------------------------
\* ExitIpCache: HashMap<String, Option<IpAddr>> as a set of (key, value)
\* entries.
\* ------------------------------------------------------------------------
CacheEntry(k, v) == [key |-> k, value |-> v]
Entries(cache, k) == {e \in cache : e.key = k}
HasKey(cache, k) == Entries(cache, k) # {}

\* Variant of cache_get that takes a cached absent exit IP for a miss.
cache_get_absent_is_miss(cache, k) ==
    IF HasKey(cache, k) /\ IsSome((CHOOSE e \in cache : e.key = k).value)
    THEN Some((CHOOSE e \in cache : e.key = k).value)
    ELSE None

\* HashMap::get(..).cloned(): None on a miss, Some(stored value) on a hit;
\* the stored value is itself an Option<IpAddr>.
cache_get(cache, k) ==
    IF HasKey(cache, k) THEN Some((CHOOSE e \in cache : e.key = k).value)
    ELSE None

\* Variant of cache_insert that adds the entry without replacing the key's.
cache_insert_keep_old(cache, k, v) == cache \cup {CacheEntry(k, v)}

\* HashMap::insert: replaces the entry of the key.
cache_insert(cache, k, v) ==
    {e \in cache : e.key # k} \cup {CacheEntry(k, v)}

\* format!("{}:{}", ip, port)
EndpointKey(ip, port) == [ip |-> ip, port |-> port]

\* ------------------------------------------------------------------------
\* Labels returned by determine_proxy_mode.
\* ------------------------------------------------------------------------
EndpointLabel(ip, port) == [tag |-> "endpoint", ip |-> Some(ip), port |-> port, iface |-> <<>>]
TunLabel(ip, port) == [tag |-> "TUN", ip |-> Some(ip), port |-> port, iface |-> <<>>]
IfaceLabel(iface) == [tag |-> "iface", ip |-> None, port |-> 0, iface |-> iface]

OwnerDetail(o) == [tag |-> "proxy_pid_name", pid |-> o.pid, name |-> o.name]
TunDetail == [tag |-> "tun_mode=true", pid |-> 0, name |-> ""]

GeoCountry(text) == [tag |-> "geo", text |-> text, ip |-> None]
ExitIpCountry(ip) == [tag |-> "exit_ip", text |-> "", ip |-> Some(ip)]

Result(mode, proxy, detail, country) ==
    [mode |-> mode, proxy |-> proxy, detail |-> detail, country |-> country]

\* ------------------------------------------------------------------------
\* determine_proxy_mode, the single pass over the sockets (scan.rs 292-346)
\* ------------------------------------------------------------------------
\* proxy_ports: the ports of the configured http, https and socks proxies.
proxy_ports(sp) ==
    {Unwrap(x).port : x \in {y \in {sp.http, sp.https, sp.socks} : IsSome(y)}}

Buckets(hr, sys, loc, tun) ==
    [has_remote_conn |-> hr, system_proxy_conn |-> sys,
     local_proxy_conn |-> loc, tun_proxy_conn |-> tun]

EmptyBuckets == Buckets(FALSE, None, None, None)

Endpoint(sock) == [ip |-> sock.remote_addr, port |-> sock.remote_port]

\* Variant of bucket_step that does not skip LISTEN-state sockets.
bucket_step_counts_listeners(acc, sock, ports) ==
    IF is_unspecified(sock.remote_addr) THEN acc
    ELSE IF is_loopback(sock.remote_addr) /\ check_port_match(sock.remote_port, ports)
    THEN IF acc.system_proxy_conn = None
         THEN [acc EXCEPT !.system_proxy_conn = Some(Endpoint(sock))]
         ELSE acc
    ELSE IF is_tun_virtual_ip(sock.remote_addr) \/ is_tun_virtual_ip(sock.local_addr)
    THEN IF acc.tun_proxy_conn = None
         THEN [acc EXCEPT !.tun_proxy_conn = Some(Endpoint(sock))]
         ELSE acc
    ELSE IF is_loopback(sock.remote_addr)
    THEN IF acc.local_proxy_conn = None
         THEN [acc EXCEPT !.local_proxy_conn = Some(Endpoint(sock))]
         ELSE acc
    ELSE [acc EXCEPT !.has_remote_conn = TRUE]

\* Variant of bucket_step in which a later match replaces the endpoint of its
\* bucket.
bucket_step_last_match(acc, sock, ports) ==
    IF IsSome(sock.tcp_state) /\ is_listening(Unwrap(sock.tcp_state)) THEN acc
    ELSE IF is_unspecified(sock.remote_addr) THEN acc
    ELSE IF is_loopback(sock.remote_addr) /\ check_port_match(sock.remote_port, ports)
    THEN [acc EXCEPT !.system_proxy_conn = Some(Endpoint(sock))]
    ELSE IF is_tun_virtual_ip(sock.remote_addr) \/ is_tun_virtual_ip(sock.local_addr)
    THEN [acc EXCEPT !.tun_proxy_conn = Some(Endpoint(sock))]
    ELSE IF is_loopback(sock.remote_addr)
    THEN [acc EXCEPT !.local_proxy_conn = Some(Endpoint(sock))]
    ELSE [acc EXCEPT !.has_remote_conn = TRUE]

\* One iteration of the loop body.
bucket_step(acc, sock, ports) ==
    IF IsSome(sock.tcp_state) /\ is_listening(Unwrap(sock.tcp_state)) THEN acc
    ELSE IF is_unspecified(sock.remote_addr) THEN acc
    ELSE IF is_loopback(sock.remote_addr) /\ check_port_match(sock.remote_port, ports)
    THEN IF acc.system_proxy_conn = None
         THEN [acc EXCEPT !.system_proxy_conn = Some(Endpoint(sock))]
         ELSE acc
    ELSE IF is_tun_virtual_ip(sock.remote_addr) \/ is_tun_virtual_ip(sock.local_addr)
    THEN IF acc.tun_proxy_conn = None
         THEN [acc EXCEPT !.tun_proxy_conn = Some(Endpoint(sock))]
         ELSE acc
    ELSE IF is_loopback(sock.remote_addr)
    THEN IF acc.local_proxy_conn = None
         THEN [acc EXCEPT !.local_proxy_conn = Some(Endpoint(sock))]
         ELSE acc
    ELSE [acc EXCEPT !.has_remote_conn = TRUE]

RECURSIVE bucket_from(_, _, _, _)
bucket_from(socks, i, acc, ports) ==
    IF i > Len(socks) THEN acc
    ELSE bucket_from(socks, i + 1, bucket_step(acc, socks[i], ports), ports)

bucket_connections(socks, sp) == bucket_from(socks, 1, EmptyBuckets, proxy_ports(sp))

\* Variant of resolve_branch that tests the tun bucket before the
\* system-proxy bucket.
resolve_branch_tun_first(acc, vpn) ==
    IF IsSome(acc.tun_proxy_conn) THEN "tun"
    ELSE IF IsSome(acc.system_proxy_conn) THEN "system"
    ELSE IF IsSome(acc.local_proxy_conn) THEN "local"
    ELSE IF vpn /\ acc.has_remote_conn THEN "vpn"
    ELSE "direct"

\* Variant of resolve_branch that takes a VPN-style route for VpnLikely even
\* without a remote connection.
resolve_branch_vpn_without_remote(acc, vpn) ==
    IF IsSome(acc.system_proxy_conn) THEN "system"
    ELSE IF IsSome(acc.tun_proxy_conn) THEN "tun"
    ELSE IF IsSome(acc.local_proxy_conn) THEN "local"
    ELSE IF vpn THEN "vpn"
    ELSE "direct"

\* The branch of the priority chain that returns (scan.rs 351, 410, 470,
\* 526, 542).
resolve_branch(acc, vpn) ==
    IF IsSome(acc.system_proxy_conn) THEN "system"
    ELSE IF IsSome(acc.tun_proxy_conn) THEN "tun"
    ELSE IF IsSome(acc.local_proxy_conn) THEN "local"
    ELSE IF vpn /\ acc.has_remote_conn THEN "vpn"
    ELSE "direct"

matched_conn(acc, branch) ==
    CASE branch = "system" -> acc.system_proxy_conn
      [] branch = "tun" -> acc.tun_proxy_conn
      [] branch = "local" -> acc.local_proxy_conn
      [] OTHER -> None

\* Variant of proxy_candidate that prefers http over socks.
proxy_candidate_http_first(sp) ==
    IF IsSome(sp.http) THEN sp.http
    ELSE IF IsSome(sp.socks) THEN sp.socks
    ELSE sp.https

\* The proxy the tun branch probes through: socks, else http, else https.
proxy_candidate(sp) ==
    IF IsSome(sp.socks) THEN sp.socks
    ELSE IF IsSome(sp.http) THEN sp.http
    ELSE sp.https

\* Variant of owner_detail that never attributes the port.
owner_detail_never(lp, port) == None

\* detail: the owner of the matched port in the ListenPortMap, if any.
owner_detail(lp, port) ==
    IF port \in DOMAIN lp THEN Some(OwnerDetail(lp[port])) ELSE None

\* The cache key under which the branch resolves an exit IP, None when the
\* branch resolves none (scan.rs 356-364, 418-429, 475-483).
resolution_key(branch, ep, sp, lp, probe) ==
    CASE branch \in {"system", "local"} ->
            IF ep.port \in DOMAIN lp /\ probe
            THEN Some(EndpointKey(ep.ip, ep.port))
            ELSE None
      [] branch = "tun" ->
            IF probe /\ IsSome(proxy_candidate(sp))
                     /\ IsSome(parse_ip(Unwrap(proxy_candidate(sp)).host))
            THEN Some(EndpointKey(Unwrap(parse_ip(Unwrap(proxy_candidate(sp)).host)),
                                  Unwrap(proxy_candidate(sp)).port))
            ELSE None
      [] OTHER -> None

\* Variant of country_of without the exit_ip=<ip> fallback.
country_of_geo_only(exit_ip, geo) ==
    IF exit_ip = None \/ geo = None THEN None
    ELSE LET found == geo_lookup(Unwrap(geo), Unwrap(exit_ip))
         IN IF IsSome(found) THEN Some(GeoCountry(Unwrap(found))) ELSE None

\* country: the GeoIP label of the exit IP, else the literal exit_ip=<ip>
\* (scan.rs 383-393).
country_of(exit_ip, geo) ==
    IF exit_ip = None THEN None
    ELSE LET ip == Unwrap(exit_ip)
             found == IF IsSome(geo) THEN geo_lookup(Unwrap(geo), ip) ELSE None
         IN IF IsSome(found) THEN Some(GeoCountry(Unwrap(found)))
            ELSE Some(ExitIpCountry(ip))

\* Variant of branch_result that reports the tun bucket under a mode of its
\* own.
branch_result_tun_mode(branch, ep, lp, iface, country) ==
    CASE branch = "system" ->
            Result("SystemProxy", Some(EndpointLabel(Unwrap(ep).ip, Unwrap(ep).port)),
                   owner_detail(lp, Unwrap(ep).port), country)
      [] branch = "tun" ->
            Result("TunLike", Some(TunLabel(Unwrap(ep).ip, Unwrap(ep).port)),
                   Some(TunDetail), country)
      [] branch = "local" ->
            Result("LocalProxy", Some(EndpointLabel(Unwrap(ep).ip, Unwrap(ep).port)),
                   owner_detail(lp, Unwrap(ep).port), country)
      [] branch = "vpn" -> Result("VpnLikely", Some(IfaceLabel(iface)), None, None)
      [] OTHER -> Result("Direct", None, None, None)

\* The tuple a branch returns (scan.rs 401-406, 461-466, 517-522, 530-535,
\* 542).
branch_result(branch, ep, lp, iface, country) ==
    CASE branch = "system" ->
            Result("SystemProxy", Some(EndpointLabel(Unwrap(ep).ip, Unwrap(ep).port)),
                   owner_detail(lp, Unwrap(ep).port), country)
      [] branch = "tun" ->
            Result("VpnLikely", Some(TunLabel(Unwrap(ep).ip, Unwrap(ep).port)),
                   Some(TunDetail), country)
      [] branch = "local" ->
            Result("LocalProxy", Some(EndpointLabel(Unwrap(ep).ip, Unwrap(ep).port)),
                   owner_detail(lp, Unwrap(ep).port), country)
      [] branch = "vpn" -> Result("VpnLikely", Some(IfaceLabel(iface)), None, None)
      [] OTHER -> Result("Direct", None, None, None)

\* ------------------------------------------------------------------------
\* Actions of one classification task t (determine_proxy_mode, scan.rs
\* 288-543). Positions: classify, lock_read (waiting for the mutex), read
\* (mutex held), socks and http (the two probe attempts), lock_insert
\* (waiting for the mutex), insert (mutex held), ret.
\* ------------------------------------------------------------------------
ReturnWith(t, ip) ==
    /\ exit_ip_of' = [exit_ip_of EXCEPT ![t] = ip]
    /\ ret' = [ret EXCEPT ![t] =
                Some(branch_result(conn[t].branch, conn[t].ep, listen_ports,
                                   default_iface, country_of(ip, geo_db)))]
    /\ pc' = [pc EXCEPT ![t] = "ret"]

\* The pass over the sockets and the choice of the branch, up to the first
\* use of the cache; branches that resolve no exit IP return here.
DetermineProxyMode(t) ==
    /\ pc[t] = "classify"
    /\ LET acc == bucket_connections(sockets[t], system_proxy)
           branch == resolve_branch(acc, is_vpn)
           ep == matched_conn(acc, branch)
           key == IF IsSome(ep)
                  THEN resolution_key(branch, Unwrap(ep), system_proxy,
                                      listen_ports, probe_exit)
                  ELSE None
       IN /\ conn' = [conn EXCEPT ![t] = [branch |-> branch, ep |-> ep]]
          /\ cache_key' = [cache_key EXCEPT ![t] = key]
          /\ IF key = None
             THEN /\ ret' = [ret EXCEPT ![t] =
                              Some(branch_result(branch, ep, listen_ports,
                                                 default_iface, country_of(None, geo_db)))]
                  /\ pc' = [pc EXCEPT ![t] = "ret"]
             ELSE /\ pc' = [pc EXCEPT ![t] = "lock_read"]
                  /\ ret' = ret
    /\ UNCHANGED <<ctxVars, outerVars, exit_ip_cache, cache_lock, sockets,
                   probe_result, exit_ip_of, histVars>>

\* ctx.exit_ip_cache.lock() of the read block: the task waits until the
\* mutex is free and takes it.
LockForRead(t) ==
    /\ pc[t] = "lock_read"
    /\ cache_lock = None
    /\ cache_lock' = Some(t)
    /\ pc' = [pc EXCEPT ![t] = "read"]
    /\ UNCHANGED <<ctxVars, outerVars, exit_ip_cache, sockets, conn, cache_key,
                   probe_result, exit_ip_of, ret, histVars>>

\* Variant of CacheRead that probes whatever the cache holds.
CacheReadAlwaysProbes(t) ==
    /\ pc[t] = "read"
    /\ cache_lock' = None
    /\ pc' = [pc EXCEPT ![t] = "socks"]
    /\ UNCHANGED <<ctxVars, outerVars, exit_ip_cache, sockets, conn, cache_key,
                   probe_result, exit_ip_of, ret, histVars>>

\* Variant of CacheRead whose guard lives on after the block: on a miss the
\* mutex stays with the task while it probes.
CacheReadKeepsGuard(t) ==
    /\ pc[t] = "read"
    /\ LET cached_ip == cache_get(exit_ip_cache, Unwrap(cache_key[t]))
       IN IF IsSome(cached_ip)
          THEN /\ ReturnWith(t, Unwrap(cached_ip))
               /\ cache_lock' = None
          ELSE /\ pc' = [pc EXCEPT ![t] = "socks"]
               /\ UNCHANGED <<ret, exit_ip_of, cache_lock>>
    /\ UNCHANGED <<ctxVars, outerVars, exit_ip_cache, sockets, conn, cache_key, probe_result,
                   histVars>>

\* cache.get(&cache_key).cloned() under the guard, which is dropped at the
\* end of the block. A hit (even of an absent exit IP) is used as is; a miss
\* goes on to probe.
CacheRead(t) ==
    /\ pc[t] = "read"
    /\ cache_lock' = None
    /\ LET cached_ip == cache_get(exit_ip_cache, Unwrap(cache_key[t]))
       IN IF IsSome(cached_ip)
          THEN ReturnWith(t, Unwrap(cached_ip))
          ELSE /\ pc' = [pc EXCEPT ![t] = "socks"]
               /\ UNCHANGED <<ret, exit_ip_of>>
    /\ UNCHANGED <<ctxVars, outerVars, exit_ip_cache, sockets, conn, cache_key, probe_result,
                   histVars>>

\* One call of try_probe_with_proxy as it is recorded in the history.
Attempt(scheme, outcome) == [scheme |-> scheme, outcome |-> outcome]

\* Variant of ProbeSocks that goes on to the HTTP attempt whatever the SOCKS
\* attempt gave.
ProbeSocksThenAlwaysHttp(t) ==
    /\ pc[t] = "socks"
    /\ probes' = [probes EXCEPT ![t] = @ + 1]
    /\ \E r \in ProbeOutcomes :
         /\ attempts' = [attempts EXCEPT ![t] = Append(@, Attempt("socks5h", r))]
         /\ probe_result' = [probe_result EXCEPT ![t] = r]
         /\ pc' = [pc EXCEPT ![t] = "http"]
    /\ UNCHANGED <<ctxVars, outerVars, exit_ip_cache, cache_lock, sockets, conn,
                   cache_key, exit_ip_of, ret, inserts>>

\* probe_exit_ip, first attempt: through the endpoint as a SOCKS5 proxy; a
\* success is returned at once.
ProbeSocks(t) ==
    /\ pc[t] = "socks"
    /\ probes' = [probes EXCEPT ![t] = @ + 1]
    /\ \E r \in ProbeOutcomes :
         /\ attempts' = [attempts EXCEPT ![t] = Append(@, Attempt("socks5h", r))]
         /\ IF IsSome(r)
            THEN /\ probe_result' = [probe_result EXCEPT ![t] = r]
                 /\ pc' = [pc EXCEPT ![t] = "lock_insert"]
            ELSE /\ probe_result' = probe_result
                 /\ pc' = [pc EXCEPT ![t] = "http"]
    /\ UNCHANGED <<ctxVars, outerVars, exit_ip_cache, cache_lock, sockets, conn,
                   cache_key, exit_ip_of, ret, inserts>>

\* probe_exit_ip, second attempt: through the endpoint as an HTTP proxy; its
\* outcome, success or not, is what probe_exit_ip returns.
ProbeHttp(t) ==
    /\ pc[t] = "http"
    /\ \E r \in ProbeOutcomes :
         /\ attempts' = [attempts EXCEPT ![t] = Append(@, Attempt("http", r))]
         /\ probe_result' = [probe_result EXCEPT ![t] = r]
    /\ pc' = [pc EXCEPT ![t] = "lock_insert"]
    /\ UNCHANGED <<ctxVars, outerVars, exit_ip_cache, cache_lock, sockets, conn,
                   cache_key, exit_ip_of, ret, probes, inserts>>

\* ctx.exit_ip_cache.lock() before the insert.
LockForInsert(t) ==
    /\ pc[t] = "lock_insert"
    /\ cache_lock = None
    /\ cache_lock' = Some(t)
    /\ pc' = [pc EXCEPT ![t] = "insert"]
    /\ UNCHANGED <<ctxVars, outerVars, exit_ip_cache, sockets, conn, cache_key,
                   probe_result, exit_ip_of, ret, histVars>>

\* cache.insert(cache_key, result) under the guard, which is dropped at the
\* end of the else block; then the country label and the return.
CacheInsert(t) ==
    /\ pc[t] = "insert"
    /\ exit_ip_cache' = cache_insert(exit_ip_cache, Unwrap(cache_key[t]), probe_result[t])
    /\ cache_lock' = None
    /\ inserts' = [inserts EXCEPT ![t] = @ + 1]
    /\ ReturnWith(t, probe_result[t])
    /\ UNCHANGED <<ctxVars, outerVars, sockets, conn, cache_key, probe_result,
                   probes, attempts>>

TaskStep(t) ==
    \/ DetermineProxyMode(t)
    \/ LockForRead(t)
    \/ CacheRead(t)
    \/ ProbeSocks(t)
    \/ ProbeHttp(t)
    \/ LockForInsert(t)
    \/ CacheInsert(t)

NoConn == [branch |-> "none", ep |-> None]

\* ------------------------------------------------------------------------
\* SpecClassify: one call of determine_proxy_mode on every socket list of up
\* to MaxSockets sockets, under every configuration, with an empty cache.
\* ------------------------------------------------------------------------
TaskInit(active) ==
    /\ pc = [t \in Tasks |-> IF t \in active THEN "classify" ELSE "idle"]
    /\ conn = [t \in Tasks |-> NoConn]
    /\ cache_key = [t \in Tasks |-> None]
    /\ probe_result = [t \in Tasks |-> None]
    /\ ret = [t \in Tasks |-> None]
    /\ probes = [t \in Tasks |-> 0]
    /\ inserts = [t \in Tasks |-> 0]
    /\ attempts = [t \in Tasks |-> <<>>]
    /\ exit_ip_of = [t \in Tasks |-> None]
    /\ exit_ip_cache = {}
    /\ cache_lock = None

\* The parts of the state a specification does not use.
NoScan ==
    /\ only_routed = FALSE
    /\ target_pid = None
    /\ scan_pc = "off"
    /\ pids = <<>>
    /\ emitted = [t \in Tasks |-> None]
    /\ results = <<>>
    /\ os_name = [t \in Tasks |-> None]
    /\ os_path = [t \in Tasks |-> None]
    /\ os_sockets = [t \in Tasks |-> [ok |-> FALSE, socks |-> <<>>]]

NoListPids ==
    /\ lp_pc = "off"
    /\ lp_len = 0
    /\ lp_retries = 0
    /\ lp_ret = 0
    /\ lp_buf = <<>>
    /\ lp_pids = <<>>

NoRules ==
    /\ rule_format = "none"
    /\ rule_files = <<>>
    /\ rule_last = <<>>
    /\ rule_calls = 0
    /\ rule_call = None

NoDecode ==
    /\ fd_pc = "off"
    /\ fd_table = <<>>
    /\ fd_needed = 0
    /\ fd_cap = 0
    /\ fd_ret = 0
    /\ fd_fds = <<>>
    /\ fd_socks = <<>>

InitClassify ==
    /\ system_proxy \in SystemProxyConfigs
    /\ default_iface \in Interfaces
    /\ is_vpn = is_vpn_interface(default_iface)
    /\ listen_ports \in ListenPortMaps
    /\ geo_db \in GeoDbs
    /\ probe_exit \in BOOLEAN
    /\ \E s \in SeqsUpTo(SocketUniverse, MaxSockets) :
         sockets = [t \in Tasks |-> IF t = 1 THEN s ELSE <<>>]
    /\ TaskInit({1})
    /\ NoScan
    /\ NoListPids
    /\ NoDecode
    /\ NoRules

NextClassify == \E t \in Tasks : TaskStep(t)

SpecClassify == InitClassify /\ [][NextClassify]_vars

\* ------------------------------------------------------------------------
\* Spec: NTasks classification tasks of one scan run concurrently, each on
\* a process with one connection, sharing the ExitIpCache.
\* ------------------------------------------------------------------------
\* The tasks are interchangeable, so the socket lists are dealt to them in
\* one order only.
ConcurrentSocketLists == <<(<<ConnSysProxy>>), (<<ConnLocal>>)>>
SocketDeals ==
    {d \in [Tasks -> DOMAIN ConcurrentSocketLists] :
        \A t \in Tasks : t > 1 => d[t - 1] <= d[t]}

Init ==
    /\ system_proxy = HttpProxy
    /\ default_iface = En0
    /\ is_vpn = is_vpn_interface(default_iface)
    /\ listen_ports = AllListen
    /\ geo_db = Some(GeoTable)
    /\ probe_exit = TRUE
    /\ \E d \in SocketDeals : sockets = [t \in Tasks |-> ConcurrentSocketLists[d[t]]]
    /\ TaskInit(Tasks)
    /\ NoScan
    /\ NoListPids
    /\ NoDecode
    /\ NoRules

Next == \E t \in Tasks : TaskStep(t)

Spec == Init /\ [][Next]_vars

\* ------------------------------------------------------------------------
\* SpecTunRange: one call of determine_proxy_mode on a single connection
\* whose local and remote addresses lie in and around 198.18.0.0/15.
\* ------------------------------------------------------------------------
RangeProbeAddrs ==
    {V4(a, b, c[1], c[2]) : a \in {197, 198, 199}, b \in {17, 18, 19, 20},
                            c \in {<<0, 0>>, <<0, 5>>, <<255, 255>>}}
    \cup {Lo4, Unspec4, Lo6, V6(<<0, 0, 0, 0, 0, 65535, 198 * 256 + 18, 5>>),
          V6(<<198 * 256 + 18, 0, 0, 0, 0, 0, 0, 5>>)}

InitTunRange ==
    /\ system_proxy \in {NoSystemProxy, HttpProxy}
    /\ default_iface = En0
    /\ is_vpn = is_vpn_interface(default_iface)
    /\ listen_ports = NoListeners
    /\ geo_db = None
    /\ probe_exit = FALSE
    /\ \E la \in RangeProbeAddrs, ra \in RangeProbeAddrs, rp \in {ProxyPort, WebPort} :
         sockets = [t \in Tasks |->
                       IF t = 1
                       THEN <<SocketInfo(la, EphemeralPort, ra, rp, "Tcp", Established)>>
                       ELSE <<>>]
    /\ TaskInit({1})
    /\ NoScan
    /\ NoListPids
    /\ NoDecode
    /\ NoRules

NextTunRange == \E t \in Tasks : DetermineProxyMode(t)

SpecTunRange == InitTunRange /\ [][NextTunRange]_vars

\* ------------------------------------------------------------------------
\* SpecCountry: two tasks classify one connection each and resolve an exit
\* IP through the shared cache, with and without a GeoIP database and with
\* exit probing on and off; the second may find what the first inserted.
\* ------------------------------------------------------------------------
CountrySocketLists == {<<ConnSysProxy>>, <<ConnTunRemote>>, <<ConnLocal>>}

InitCountry ==
    /\ system_proxy = HttpProxy
    /\ default_iface = En0
    /\ is_vpn = is_vpn_interface(default_iface)
    /\ listen_ports = AllListen
    /\ geo_db \in GeoDbs
    /\ probe_exit \in BOOLEAN
    /\ \E a \in CountrySocketLists, b \in CountrySocketLists :
         sockets = [t \in Tasks |-> IF t = 1 THEN a ELSE IF t = 2 THEN b ELSE <<>>]
    /\ TaskInit({1, 2})
    /\ NoScan
    /\ NoListPids
    /\ NoDecode
    /\ NoRules

NextCountry == \E t \in Tasks : TaskStep(t)

SpecCountry == InitCountry /\ [][NextCountry]_vars

\* ------------------------------------------------------------------------
\* SpecPortMatch: one call of determine_proxy_mode on a single established
\* loopback connection whose remote port ranges over PortSamples, under
\* every system proxy configuration and ListenPortMap.
\* ------------------------------------------------------------------------
PortSamples ==
    {0, 1, 255, 256, 257, 65535, EphemeralPort,
     ProxyPort, SwappedProxyPort, OtherPort, swap_bytes(OtherPort),
     WebPort, swap_bytes(WebPort)}

InitPortMatch ==
    /\ system_proxy \in SystemProxyConfigs
    /\ default_iface = En0
    /\ is_vpn = is_vpn_interface(default_iface)
    /\ listen_ports \in ListenPortMaps
    /\ geo_db = None
    /\ probe_exit = FALSE
    /\ \E rp \in PortSamples :
         sockets = [t \in Tasks |->
                       IF t = 1
                       THEN <<SocketInfo(Lo4, EphemeralPort, Lo4, rp, "Tcp", Established)>>
                       ELSE <<>>]
    /\ TaskInit({1})
    /\ NoScan
    /\ NoListPids
    /\ NoDecode
    /\ NoRules

NextPortMatch == \E t \in Tasks : DetermineProxyMode(t)

SpecPortMatch == InitPortMatch /\ [][NextPortMatch]_vars

\* ========================================================================
\* Properties
\* ========================================================================
\* The rules of the classification pass, stated per connection.
Surviving(s) ==
    /\ ~(IsSome(s.tcp_state) /\ Unwrap(s.tcp_state) = "Listen")
    /\ ~is_unspecified(s.remote_addr)

ConfiguredPorts ==
    {Unwrap(x).port :
        x \in {y \in {system_proxy.http, system_proxy.https, system_proxy.socks} : y # None}}

MatchesEitherByteOrder(port) ==
    \/ port \in ConfiguredPorts
    \/ swap_bytes(port) \in ConfiguredPorts

RuleA(s) ==
    Surviving(s) /\ is_loopback(s.remote_addr) /\ MatchesEitherByteOrder(s.remote_port)
RuleB(s) ==
    /\ Surviving(s) /\ ~RuleA(s)
    /\ (is_tun_virtual_ip(s.remote_addr) \/ is_tun_virtual_ip(s.local_addr))
RuleC(s) == Surviving(s) /\ ~RuleA(s) /\ ~RuleB(s) /\ is_loopback(s.remote_addr)
RuleD(s) == Surviving(s) /\ ~RuleA(s) /\ ~RuleB(s) /\ ~RuleC(s)

Some_(R(_), t) == \E i \in 1 .. Len(sockets[t]) : R(sockets[t][i])

Returned(t) == pc[t] = "ret" /\ ret[t] # None
Ret(t) == Unwrap(ret[t])

\* C1: determine_proxy_mode resolves the mode by strict bucket priority:
\* system-proxy bucket, else tun bucket (the tun result), else local-proxy
\* bucket, else VpnLikely when the route interface is VPN-style and a
\* remote connection exists, else Direct.
C1_BucketPriority ==
    \A t \in Tasks : Returned(t) =>
        IF Some_(RuleA, t) THEN Ret(t).mode = "SystemProxy"
        ELSE IF Some_(RuleB, t)
        THEN /\ Ret(t).mode = "VpnLikely"
             /\ Unwrap(Ret(t).proxy).tag = "TUN"
             /\ Ret(t).detail = Some(TunDetail)
        ELSE IF Some_(RuleC, t) THEN Ret(t).mode = "LocalProxy"
        ELSE IF is_vpn_interface(default_iface) /\ Some_(RuleD, t)
        THEN /\ Ret(t).mode = "VpnLikely"
             /\ Unwrap(Ret(t).proxy).tag = "iface"
        ELSE Ret(t).mode = "Direct"

\* A process with one system-proxy connection and one TUN-range connection
\* has been classified SystemProxy.
C1_Witness ==
    /\ Returned(1)
    /\ Some_(RuleA, 1) /\ Some_(RuleB, 1)
    /\ Ret(1).mode = "SystemProxy"

\* C2 as stated: a surviving connection is in the system-proxy bucket iff its
\* remote is loopback and its remote port equals a configured system-proxy
\* port; a loopback connection to a port that is not configured never yields
\* SystemProxy.
EqualsConfiguredPort(s) ==
    Surviving(s) /\ is_loopback(s.remote_addr) /\ s.remote_port \in ConfiguredPorts

C2_Original ==
    \A t \in Tasks : Returned(t) =>
        (Ret(t).mode = "SystemProxy" <=> Some_(EqualsConfiguredPort, t))

\* C2 amended: a surviving connection is in the system-proxy bucket iff its
\* remote is loopback and its remote port, as observed or byte-swapped,
\* equals a configured system-proxy port; the bucket holds the first such
\* connection, and the mode is SystemProxy exactly when there is one.
FirstIndex(R(_), t) ==
    CHOOSE i \in 1 .. Len(sockets[t]) :
        R(sockets[t][i]) /\ \A j \in 1 .. (i - 1) : ~R(sockets[t][j])

C2_SystemBucketEitherByteOrder ==
    \A t \in Tasks : Returned(t) =>
        /\ (conn[t].branch = "system" <=> Some_(RuleA, t))
        /\ (Ret(t).mode = "SystemProxy" <=> Some_(RuleA, t))
        /\ Some_(RuleA, t) =>
              conn[t].ep = Some(Endpoint(sockets[t][FirstIndex(RuleA, t)]))

\* A loopback connection to the byte-swapped proxy port, which is not itself
\* configured, has been classified SystemProxy.
C2_Witness ==
    /\ Returned(1)
    /\ Some_(RuleA, 1) /\ ~Some_(EqualsConfiguredPort, 1)
    /\ Ret(1).mode = "SystemProxy"

\* ------------------------------------------------------------------------
\* ExitIpCache under concurrent classification tasks
\* ------------------------------------------------------------------------
Resolves(t) == cache_key[t] # None
KeyOf(t) == Unwrap(cache_key[t])
StoredValue(cache, k) == (CHOOSE e \in cache : e.key = k).value
AllKeys == {EndpointKey(Lo4, ProxyPort), EndpointKey(Lo4, OtherPort)}
TasksOf(k) == {t \in Tasks : cache_key[t] = Some(k)}

RECURSIVE SumProbes(_)
SumProbes(S) ==
    IF S = {} THEN 0
    ELSE LET t == CHOOSE x \in S : TRUE IN probes[t] + SumProbes(S \ {t})

\* C3 as stated: once an entry has been written for a key, no task
\* afterwards runs a probe for that key or overwrites the entry.
C3_Original ==
    [][\A t \in Tasks :
         (Resolves(t) /\ HasKey(exit_ip_cache, KeyOf(t))) =>
             (probes'[t] = probes[t] /\ inserts'[t] = inserts[t])]_vars

\* C3 amended: once an entry has been written for a key it is never removed,
\* and no task whose read-check finds it starts a probe for that key or
\* writes the entry; only tasks whose read-check missed before the write may
\* still probe and overwrite.
C3_NoProbeAfterSeenEntry ==
    [][\A t \in Tasks :
         (Resolves(t) /\ HasKey(exit_ip_cache, KeyOf(t))) =>
             /\ HasKey(exit_ip_cache', KeyOf(t))
             /\ pc[t] = "read" =>
                   /\ pc'[t] \in {"read", "ret"}
                   /\ probes'[t] = probes[t]
                   /\ inserts'[t] = inserts[t]
             /\ pc[t] = "ret" =>
                   /\ pc'[t] = "ret"
                   /\ probes'[t] = probes[t]
                   /\ inserts'[t] = inserts[t]]_vars

\* A task has returned from a cache hit, without probing, while another task
\* that had missed earlier has probed and written the entry twice over.
C3_Witness ==
    \E t, u, w \in Tasks :
        /\ t # u /\ u # w /\ t # w
        /\ cache_key[t] = cache_key[u] /\ cache_key[u] = cache_key[w] /\ Resolves(t)
        /\ Returned(t) /\ probes[t] = 0 /\ inserts[t] = 0
        /\ inserts[u] = 1 /\ inserts[w] = 1

\* C4: N concurrent tasks resolving the same unseen endpoint issue at most N
\* probes for it (each task at most one), and when all have finished the
\* cache holds exactly one entry for the key.
C4_BoundedProbesOneEntry ==
    /\ \A t \in Tasks : probes[t] <= 1
    /\ \A k \in AllKeys :
          /\ SumProbes(TasksOf(k)) <= Cardinality(TasksOf(k))
          /\ Cardinality(Entries(exit_ip_cache, k)) <= 1
          /\ (TasksOf(k) # {} /\ \A t \in Tasks : pc[t] = "ret") =>
                Cardinality(Entries(exit_ip_cache, k)) = 1

\* All N tasks resolved the same endpoint, every one of them probed it, and
\* all have finished.
C4_Witness ==
    \E k \in AllKeys :
        /\ TasksOf(k) = Tasks
        /\ \A t \in Tasks : pc[t] = "ret" /\ probes[t] = 1 /\ inserts[t] = 1
        /\ Cardinality(Entries(exit_ip_cache, k)) = 1

\* C5 as stated: when two tasks both miss on the same endpoint and both
\* probe it, the value left in the cache is the same whichever insert comes
\* last, and equals the exit IP each of the two used for its own result.
C5_IdempotentOverwrite ==
    \A t, u \in Tasks :
        (/\ t # u
         /\ Resolves(t) /\ cache_key[t] = cache_key[u]
         /\ pc[t] = "ret" /\ pc[u] = "ret"
         /\ inserts[t] = 1 /\ inserts[u] = 1
         /\ \A w \in TasksOf(KeyOf(t)) : pc[w] = "ret")
        => /\ StoredValue(exit_ip_cache, KeyOf(t)) = probe_result[t]
           /\ StoredValue(exit_ip_cache, KeyOf(t)) = probe_result[u]

\* C6: once a result, present or absent, has been inserted for key k, a
\* task whose read-check comes after the insert takes the cached value and
\* issues no probe for k, then or later.
C6_CachedResultNotRetried ==
    [][\A t \in Tasks :
         /\ (pc[t] = "read" /\ pc'[t] # "read" /\ HasKey(exit_ip_cache, KeyOf(t))) =>
               /\ pc'[t] = "ret"
               /\ probes' = probes
               /\ exit_ip_cache' = exit_ip_cache
               /\ Unwrap(ret'[t]).country =
                     country_of(StoredValue(exit_ip_cache, KeyOf(t)), geo_db)
         /\ (pc[t] = "ret" /\ probes[t] = 0) => (pc'[t] = "ret" /\ probes'[t] = 0)]_vars

\* A task read the cached absent result of a failed probe and returned with
\* no country, without probing.
C6_Witness ==
    \E t, u \in Tasks :
        /\ t # u /\ Resolves(t) /\ cache_key[t] = cache_key[u]
        /\ inserts[u] = 1 /\ probe_result[u] = None
        /\ exit_ip_cache = {CacheEntry(KeyOf(t), None)}
        /\ Returned(t) /\ probes[t] = 0 /\ Ret(t).country = None

\* ------------------------------------------------------------------------
\* Exit-IP resolution of one classification
\* ------------------------------------------------------------------------
MatchedKey(t) == EndpointKey(Unwrap(conn[t].ep).ip, Unwrap(conn[t].ep).port)

\* C7 as stated: with probing enabled, a classification that resolves
\* through the system-proxy, tun or local-proxy bucket leaves an entry in the
\* cache under the matched connection's ip:port, whether or not the
\* ListenPortMap has an owner for the port.
C7_Original ==
    \A t \in Tasks :
        (Returned(t) /\ probe_exit /\ conn[t].branch \in {"system", "tun", "local"})
        => HasKey(exit_ip_cache, MatchedKey(t))

\* C7 amended: with probing enabled, a classification that resolves through
\* the system-proxy or local-proxy bucket leaves a cache entry under the
\* matched connection's ip:port when the ListenPortMap has an owner for the
\* matched port; one that resolves through the tun bucket leaves an entry
\* under the ip:port of the configured system proxy (socks, else http, else
\* https) when one is configured by IP literal; in every other case no exit
\* IP is resolved: the cache is untouched and the country is absent.
TunProbeTarget ==
    IF system_proxy.socks # None THEN system_proxy.socks
    ELSE IF system_proxy.http # None THEN system_proxy.http
    ELSE system_proxy.https

ExpectedKey(t) ==
    CASE conn[t].branch \in {"system", "local"} ->
            IF probe_exit /\ Unwrap(conn[t].ep).port \in DOMAIN listen_ports
            THEN Some(MatchedKey(t)) ELSE None
      [] conn[t].branch = "tun" ->
            IF probe_exit /\ TunProbeTarget # None
                          /\ Unwrap(TunProbeTarget).host.ip # None
            THEN Some(EndpointKey(Unwrap(Unwrap(TunProbeTarget).host.ip),
                                  Unwrap(TunProbeTarget).port))
            ELSE None
      [] OTHER -> None

C7_ResolutionWhenOwnerKnown ==
    \A t \in Tasks : Returned(t) =>
        IF ExpectedKey(t) # None
        THEN /\ HasKey(exit_ip_cache, Unwrap(ExpectedKey(t)))
             /\ \A e \in exit_ip_cache : e.key = Unwrap(ExpectedKey(t))
        ELSE /\ exit_ip_cache = {}
             /\ Ret(t).country = None

\* With probing enabled a classification resolved through the tun bucket and
\* left a cache entry under the system proxy's endpoint, not under the
\* matched connection's.
C7_Witness ==
    /\ Returned(1) /\ probe_exit /\ conn[1].branch = "tun"
    /\ system_proxy = SocksAndHttpProxy
    /\ HasKey(exit_ip_cache, EndpointKey(Lo4, OtherPort))
    /\ ~HasKey(exit_ip_cache, MatchedKey(1))

\* ------------------------------------------------------------------------
\* Bucketing: first match per connection, first occurrence per bucket
\* ------------------------------------------------------------------------
\* The accumulator after the first n connections of the task's list.
BucketsAfter(t, n) ==
    bucket_from(SubSeq(sockets[t], 1, n), 1, EmptyBuckets, proxy_ports(system_proxy))

BucketFields ==
    {"has_remote_conn", "system_proxy_conn", "local_proxy_conn", "tun_proxy_conn"}

\* The field of the accumulator a connection may write, by the first rule it
\* satisfies; none for a connection that satisfies no rule.
FieldOf(s) ==
    IF RuleA(s) THEN {"system_proxy_conn"}
    ELSE IF RuleB(s) THEN {"tun_proxy_conn"}
    ELSE IF RuleC(s) THEN {"local_proxy_conn"}
    ELSE IF RuleD(s) THEN {"has_remote_conn"}
    ELSE {}

\* The endpoint of the first connection of the list that satisfies the rule.
FirstEndpoint(R(_), socks) ==
    IF \E i \in DOMAIN socks : R(socks[i])
    THEN Some(Endpoint(socks[CHOOSE i \in DOMAIN socks :
                                /\ R(socks[i])
                                /\ \A j \in DOMAIN socks : R(socks[j]) => i <= j]))
    ELSE None

\* C24: every connection is tested against the rules a, b, c, d in this
\* order and writes at most the one bucket or flag of the first rule it
\* satisfies; each bucket keeps the remote address and port of the first
\* connection that matched it, and a later match never replaces it.
C24_FirstMatchFirstOccurrence ==
    \A t \in Tasks : conn[t] # NoConn =>
        /\ \A i \in 1 .. Len(sockets[t]) :
              LET s == sockets[t][i]
                  before == BucketsAfter(t, i - 1)
                  after == BucketsAfter(t, i)
              IN /\ \A f \in BucketFields \ FieldOf(s) : after[f] = before[f]
                 /\ \A f \in FieldOf(s) \ {"has_remote_conn"} :
                       after[f] = IF before[f] = None THEN Some(Endpoint(s))
                                  ELSE before[f]
                 /\ RuleD(s) => after.has_remote_conn
        /\ LET acc == BucketsAfter(t, Len(sockets[t]))
           IN /\ acc.system_proxy_conn = FirstEndpoint(RuleA, sockets[t])
              /\ acc.tun_proxy_conn = FirstEndpoint(RuleB, sockets[t])
              /\ acc.local_proxy_conn = FirstEndpoint(RuleC, sockets[t])
              /\ acc.has_remote_conn = Some_(RuleD, t)
              /\ conn[t].branch = "system" => conn[t].ep = acc.system_proxy_conn
              /\ conn[t].branch = "tun" => conn[t].ep = acc.tun_proxy_conn
              /\ conn[t].branch = "local" => conn[t].ep = acc.local_proxy_conn

\* Two connections to the system proxy with different remote ports, the
\* byte-swapped one first: the result names the endpoint of the first.
C24_Witness ==
    /\ Len(sockets[1]) = 2
    /\ RuleA(sockets[1][1]) /\ RuleA(sockets[1][2])
    /\ Endpoint(sockets[1][1]) # Endpoint(sockets[1][2])
    /\ Returned(1)
    /\ Ret(1).proxy = Some(EndpointLabel(sockets[1][1].remote_addr,
                                         sockets[1][1].remote_port))

\* ------------------------------------------------------------------------
\* The country label
\* ------------------------------------------------------------------------
\* The task took its exit IP from the cache.
CacheHit(t) == cache_key[t] # None /\ probes[t] = 0 /\ pc[t] = "ret"

\* The GeoIP database is loaded and has an entry for the address.
GeoKnows(ip) == geo_db # None /\ ip \in DOMAIN Unwrap(geo_db)

\* C26: a task that obtained an exit IP, from the cache or from its probe,
\* returns a country label: the GeoIP label when the lookup succeeds, else
\* the literal exit_ip=<ip> (no database, or no entry for the address). A
\* task without an exit IP (probing disabled, probe failed, or the cached
\* value is absent) returns no country label.
C26_CountryLabel ==
    \A t \in Tasks : Returned(t) =>
        /\ ~probe_exit => exit_ip_of[t] = None
        /\ inserts[t] = 1 => exit_ip_of[t] = probe_result[t]
        /\ CacheHit(t) =>
              \E u \in Tasks \ {t} :
                  /\ cache_key[u] = cache_key[t] /\ inserts[u] = 1
                  /\ exit_ip_of[t] = probe_result[u]
        /\ IsSome(exit_ip_of[t]) =>
              LET ip == Unwrap(exit_ip_of[t])
              IN Ret(t).country =
                    IF GeoKnows(ip) THEN Some(GeoCountry(Unwrap(geo_db)[ip]))
                    ELSE Some(ExitIpCountry(ip))
        /\ exit_ip_of[t] = None => Ret(t).country = None

\* With a database loaded, one task probed an address the database does not
\* know and returned exit_ip=<ip>, and the other took the same address from
\* the cache and returned the same label.
C26_Witness ==
    \E t, u \in Tasks :
        /\ t # u /\ Returned(t) /\ Returned(u)
        /\ geo_db # None
        /\ inserts[t] = 1 /\ probe_result[t] = Some(ExitIpB)
        /\ CacheHit(u) /\ exit_ip_of[u] = Some(ExitIpB)
        /\ Ret(t).country = Some(ExitIpCountry(ExitIpB))
        /\ Ret(u).country = Some(ExitIpCountry(ExitIpB))

\* ------------------------------------------------------------------------
\* Port matching in either byte order
\* ------------------------------------------------------------------------
\* q is p with its two bytes exchanged.
BytesExchanged(p, q) == q \div 256 = p % 256 /\ q % 256 = p \div 256

\* The remote port of the one connection of task 1.
ObservedPort == sockets[1][1].remote_port

\* C29: check_port_match(port, targets) is true exactly when the port or the
\* port with its two bytes exchanged is a target, so it gives the same answer
\* for a port and for its byte-swapped value; a connection that matches only
\* byte-swapped is put into the system bucket, and its endpoint label and
\* its ListenPortMap lookup use the observed port, not the configured one.
C29_PortMatchEitherOrder ==
    LET p == ObservedPort
        targets == proxy_ports(system_proxy)
        matches == \E q \in targets : q = p \/ BytesExchanged(p, q)
    IN /\ check_port_match(p, targets) <=> matches
       /\ BytesExchanged(p, swap_bytes(p))
       /\ check_port_match(swap_bytes(p), targets) <=> check_port_match(p, targets)
       /\ Returned(1) =>
             /\ Ret(1).mode = "SystemProxy" <=> matches
             /\ matches =>
                   /\ conn[1].ep = Some([ip |-> Lo4, port |-> p])
                   /\ Ret(1).proxy = Some(EndpointLabel(Lo4, p))
                   /\ Ret(1).detail =
                         IF p \in DOMAIN listen_ports
                         THEN Some(OwnerDetail(listen_ports[p]))
                         ELSE None

\* The connection goes to the byte-swapped proxy port, only the configured
\* port has a listener in the map: the result is SystemProxy, labelled with
\* the observed port and without an owner.
C29_Witness ==
    /\ Returned(1)
    /\ ObservedPort = SwappedProxyPort
    /\ proxy_ports(system_proxy) = {ProxyPort}
    /\ DOMAIN listen_ports = {ProxyPort}
    /\ Ret(1).mode = "SystemProxy"
    /\ Ret(1).proxy = Some(EndpointLabel(Lo4, SwappedProxyPort))
    /\ Ret(1).detail = None

\* ------------------------------------------------------------------------
\* The mutex of the ExitIpCache
\* ------------------------------------------------------------------------
\* The task is inside probe_exit_ip.
InFlight(t) == pc[t] \in {"socks", "http"}
\* The task is blocked in lock().
WaitsForLock(t) == pc[t] \in {"lock_read", "lock_insert"} /\ cache_lock # None

\* C23: the mutex of the ExitIpCache is held exactly while a task is in its
\* read-check or in its final insert, by that task; a task whose probe is in
\* flight does not hold it, and a task that waits for the mutex waits for a
\* holder that is in its read-check or insert, never for one that probes.
C23_LockNotHeldAcrossProbe ==
    /\ \A t \in Tasks : cache_lock = Some(t) <=> pc[t] \in {"read", "insert"}
    /\ \A t \in Tasks : InFlight(t) => cache_lock # Some(t)
    /\ \A t \in Tasks : WaitsForLock(t) => ~InFlight(Unwrap(cache_lock))

\* Two probes of the same endpoint are in flight at once while a third task
\* holds the mutex for its insert and a fourth party would have to wait.
C23_Witness ==
    \E t, u, w \in Tasks :
        /\ t # u /\ t # w /\ u # w
        /\ InFlight(t) /\ InFlight(u) /\ cache_key[t] = cache_key[u]
        /\ pc[w] = "insert" /\ cache_lock = Some(w)

\* ------------------------------------------------------------------------
\* probe_exit_ip
\* ------------------------------------------------------------------------
\* probe_exit_ip of the task has returned.
Probed(t) == probes[t] = 1 /\ pc[t] \in {"lock_insert", "insert", "ret"}

\* The outcome of the first attempt that succeeded, None if none did.
FirstSuccess(as) ==
    IF \E i \in DOMAIN as : IsSome(as[i].outcome)
    THEN as[CHOOSE i \in DOMAIN as :
                /\ IsSome(as[i].outcome)
                /\ \A j \in DOMAIN as : IsSome(as[j].outcome) => i <= j].outcome
    ELSE None

\* C25: probe_exit_ip makes at most two attempts, the first through the
\* endpoint as a SOCKS5 proxy and the second as an HTTP proxy; the HTTP
\* attempt is made exactly when the SOCKS attempt failed; the result is the
\* exit IP of the first attempt that succeeded, and it is absent exactly
\* when both attempts failed.
C25_SocksThenHttp ==
    \A t \in Tasks :
        LET as == attempts[t] IN
        /\ Len(as) <= 2
        /\ Len(as) >= 1 => as[1].scheme = "socks5h"
        /\ Len(as) = 2 => as[1].outcome = None /\ as[2].scheme = "http"
        /\ Probed(t) =>
              /\ Len(as) >= 1
              /\ as[1].outcome = None => Len(as) = 2
              /\ probe_result[t] = FirstSuccess(as)
              /\ probe_result[t] = None <=>
                    (Len(as) = 2 /\ \A i \in DOMAIN as : as[i].outcome = None)

\* The SOCKS attempt failed, the HTTP attempt gave an exit IP, and the task
\* returned with it.
C25_Witness ==
    \E t \in Tasks :
        /\ Returned(t) /\ Probed(t)
        /\ attempts[t] = <<Attempt("socks5h", None), Attempt("http", Some(ExitIpB))>>
        /\ probe_result[t] = Some(ExitIpB)
        /\ exit_ip_cache = {CacheEntry(KeyOf(t), Some(ExitIpB))}

\* ------------------------------------------------------------------------
\* Attribution of the proxy process
\* ------------------------------------------------------------------------
\* The connection that decided a system-proxy or local-proxy result: the
\* first one of the list that satisfies the bucket's rule.
DecidingConn(t) ==
    IF Some_(RuleA, t) THEN sockets[t][FirstIndex(RuleA, t)]
    ELSE sockets[t][FirstIndex(RuleC, t)]

\* C16: when the system-proxy or the local-proxy bucket wins with matched
\* endpoint ip:port, the endpoint label is "ip:port"; if the ListenPortMap
\* has port -> (pid q, name n) the detail names q and n; if it has no entry
\* for the port, mode and endpoint are the same and the detail is absent.
C16_ProxyAttribution ==
    \A t \in Tasks :
        (Returned(t) /\ (Some_(RuleA, t) \/ (~Some_(RuleB, t) /\ Some_(RuleC, t)))) =>
            LET c == DecidingConn(t)
            IN /\ Ret(t).mode = IF Some_(RuleA, t) THEN "SystemProxy" ELSE "LocalProxy"
               /\ Ret(t).proxy =
                     Some([tag |-> "endpoint", ip |-> Some(c.remote_addr),
                           port |-> c.remote_port, iface |-> <<>>])
               /\ IF c.remote_port \in DOMAIN listen_ports
                  THEN /\ Ret(t).detail # None
                       /\ Unwrap(Ret(t).detail).tag = "proxy_pid_name"
                       /\ Unwrap(Ret(t).detail).pid = listen_ports[c.remote_port].pid
                       /\ Unwrap(Ret(t).detail).name = listen_ports[c.remote_port].name
                  ELSE Ret(t).detail = None

\* System proxy http 127.0.0.1:7890, a connection to 127.0.0.1:7890, and the
\* ListenPortMap has 7890 -> (50, "clash"): SystemProxy, endpoint
\* 127.0.0.1:7890, detail naming pid 50 and "clash".
C16_Witness ==
    /\ Returned(1)
    /\ system_proxy = HttpProxy /\ listen_ports = ClashListens
    /\ sockets[1] = <<ConnSysProxy>>
    /\ Ret(1).mode = "SystemProxy"
    /\ Ret(1).proxy = Some(EndpointLabel(Lo4, ProxyPort))
    /\ Ret(1).detail = Some(OwnerDetail(Owner(ClashPid, "clash")))

\* ------------------------------------------------------------------------
\* The route-interface heuristic
\* ------------------------------------------------------------------------
NoBucketMatched(t) == ~Some_(RuleA, t) /\ ~Some_(RuleB, t) /\ ~Some_(RuleC, t)
NonLoopbackRemote(s) == Surviving(s) /\ ~is_loopback(s.remote_addr)
StartsWithUtun(iface) ==
    /\ Len(iface) >= 4
    /\ iface[1] = "u" /\ iface[2] = "t" /\ iface[3] = "u" /\ iface[4] = "n"

\* C17: when no surviving connection matches the system-proxy, tun or
\* local-proxy bucket, the mode is VpnLikely if and only if the default-route
\* interface name starts with "utun" and some surviving connection has a
\* non-loopback remote address; otherwise the mode is Direct with no
\* endpoint, detail or country.
C17_VpnLikelyOrDirect ==
    \A t \in Tasks : (Returned(t) /\ NoBucketMatched(t)) =>
        IF StartsWithUtun(default_iface) /\ Some_(NonLoopbackRemote, t)
        THEN Ret(t).mode = "VpnLikely"
        ELSE Ret(t) = [mode |-> "Direct", proxy |-> None, detail |-> None,
                       country |-> None]

\* Route interface utun4 and one connection to 93.184.216.34:443 with no
\* proxy-matching connection: VpnLikely.
C17_Witness ==
    /\ Returned(1)
    /\ default_iface = Utun4
    /\ sockets[1] = <<ConnRemote>>
    /\ Ret(1).mode = "VpnLikely"

\* ------------------------------------------------------------------------
\* The TUN-virtual range
\* ------------------------------------------------------------------------
\* 198.18.0.0/15: an IPv4 address whose leading 15 bits are those of
\* 198.18.0.0.
InTunBlock(ip) ==
    /\ ip.v = 4
    /\ (ip.o[1] * 256 + ip.o[2]) \div 2 = (198 * 256 + 18) \div 2

ProxyModes == {"SystemProxy", "LocalProxy", "VpnLikely", "Direct"}

\* C19 as stated: a process resolved through the tun bucket is reported with
\* a mode of its own, TunLike, which differs from the mode VpnLikely of the
\* route-interface heuristic.
C19_Original ==
    \A t \in Tasks : (Returned(t) /\ Some_(RuleB, t) /\ ~Some_(RuleA, t)) =>
        (Ret(t).mode = "TunLike" /\ Ret(t).mode # "VpnLikely")

\* C19 amended: there are four modes; a process resolved through the tun
\* bucket is reported with mode VpnLikely, the mode of the route-interface
\* heuristic, and the two cases differ in the endpoint label (TUN:ip:port
\* against the interface name) and in the detail (tun_mode=true against
\* none), not in the mode.
C19_TunReportedAsVpnLikely ==
    \A t \in Tasks : Returned(t) =>
        /\ Ret(t).mode \in ProxyModes
        /\ (Some_(RuleB, t) /\ ~Some_(RuleA, t)) =>
              /\ Ret(t).mode = "VpnLikely"
              /\ Unwrap(Ret(t).proxy).tag = "TUN"
              /\ Ret(t).detail = Some([tag |-> "tun_mode=true", pid |-> 0, name |-> ""])
        /\ (Ret(t).mode = "VpnLikely" /\ ~Some_(RuleB, t)) =>
              /\ Unwrap(Ret(t).proxy).tag = "iface"
              /\ Unwrap(Ret(t).proxy).iface = default_iface
              /\ Ret(t).detail = None

\* A connection to 198.18.0.5 was classified VpnLikely with a TUN: endpoint
\* while the default route is not VPN-style.
C19_Witness ==
    /\ Returned(1)
    /\ sockets[1] = <<ConnTunRemote>>
    /\ default_iface = En0
    /\ Ret(1).mode = "VpnLikely"
    /\ Ret(1).proxy = Some(TunLabel(TunIp, WebPort))

\* ------------------------------------------------------------------------
\* Connections excluded from classification
\* ------------------------------------------------------------------------
Excluded(s) == ~Surviving(s)
WithoutExcluded(socks) == SelectSeq(socks, Surviving)

\* C15: LISTEN-state connections and connections with an unspecified remote
\* address never set a bucket or the has-remote flag, and the branch, the
\* matched endpoint, the cache key and the returned mode, endpoint and detail
\* are those of the list with every such connection removed.
C15_ExcludedConnectionsIgnored ==
    \A t \in Tasks : conn[t] # NoConn =>
        LET kept == bucket_connections(WithoutExcluded(sockets[t]), system_proxy)
            branch == resolve_branch(kept, is_vpn)
            ep == matched_conn(kept, branch)
        IN /\ \A i \in 1 .. Len(sockets[t]) :
                 Excluded(sockets[t][i]) => BucketsAfter(t, i) = BucketsAfter(t, i - 1)
           /\ conn[t] = [branch |-> branch, ep |-> ep]
           /\ cache_key[t] =
                 IF ep = None THEN None
                 ELSE resolution_key(branch, Unwrap(ep), system_proxy, listen_ports,
                                     probe_exit)
           /\ Returned(t) =>
                 LET r == branch_result(branch, ep, listen_ports, default_iface, None)
                 IN /\ Ret(t).mode = r.mode
                    /\ Ret(t).proxy = r.proxy
                    /\ Ret(t).detail = r.detail
                    /\ cache_key[t] = None => Ret(t).country = None

\* A list holding a LISTEN-state socket with a remote endpoint on the proxy
\* port and an ordinary remote connection was classified by the remote
\* connection alone.
C15_Witness ==
    /\ Returned(1)
    /\ \E i, j \in 1 .. Len(sockets[1]) :
          /\ sockets[1][i] = SockListenConnected
          /\ sockets[1][j] = ConnRemote
    /\ Ret(1).mode \in {"Direct", "VpnLikely"}
    /\ conn[1].ep = None

\* ========================================================================
\* scan_all_processes (scan.rs 188-279)
\* ========================================================================
ProcNames == <<"alpha", "beta", "gamma", "delta", "epsilon">>
ProcPaths == <<"/bin/alpha", "/bin/beta", "/bin/gamma", "/bin/delta", "/bin/epsilon">>

\* What the descriptor-table query of a process answers: its sockets, or a
\* refusal (permission denied, process gone).
Visible(socks) == [ok |-> TRUE, socks |-> socks]
Refused == [ok |-> FALSE, socks |-> <<>>]

\* Result<T>
Ok(v) == [ok |-> TRUE, val |-> v]
Err == [ok |-> FALSE, val |-> <<>>]
unwrap_or_default(r) == IF r.ok THEN r.val ELSE <<>>

\* libproc.rs get_process_name / get_process_path: None when the OS call
\* fails.
get_process_name(pid) == os_name[pid]
get_process_path(pid) == os_path[pid]

\* libproc.rs list_process_sockets: list_process_fds answers a refused query
\* with an empty list, so the result is always Ok.
list_process_sockets(pid) ==
    IF os_sockets[pid].ok THEN Ok(os_sockets[pid].socks) ELSE Ok(<<>>)

\* Variant of listen_ports_of_sockets that records a listener on any address.
RECURSIVE listen_ports_of_sockets_any_address(_, _, _, _, _)
listen_ports_of_sockets_any_address(map, socks, i, pid, name) ==
    IF i > Len(socks) THEN map
    ELSE LET sock == socks[i]
             hit == /\ IsSome(sock.tcp_state)
                    /\ is_listening(Unwrap(sock.tcp_state))
             next == IF hit
                     THEN [p \in DOMAIN map \cup {sock.local_port} |->
                             IF p = sock.local_port THEN Owner(pid, name) ELSE map[p]]
                     ELSE map
         IN listen_ports_of_sockets_any_address(next, socks, i + 1, pid, name)

\* ScanContext::build_listen_ports (scan.rs 151-169)
RECURSIVE listen_ports_of_sockets(_, _, _, _, _)
listen_ports_of_sockets(map, socks, i, pid, name) ==
    IF i > Len(socks) THEN map
    ELSE LET sock == socks[i]
             hit == /\ IsSome(sock.tcp_state)
                    /\ is_listening(Unwrap(sock.tcp_state))
                    /\ is_loopback(sock.local_addr)
             next == IF hit
                     THEN [p \in DOMAIN map \cup {sock.local_port} |->
                             IF p = sock.local_port THEN Owner(pid, name) ELSE map[p]]
                     ELSE map
         IN listen_ports_of_sockets(next, socks, i + 1, pid, name)

RECURSIVE build_listen_ports(_, _, _)
build_listen_ports(map, ps, i) ==
    IF i > Len(ps) THEN map
    ELSE LET pid == ps[i]
             name == IF IsSome(get_process_name(pid))
                     THEN Unwrap(get_process_name(pid)) ELSE "unknown"
             r == list_process_sockets(pid)
             next == IF r.ok
                     THEN listen_ports_of_sockets(map, r.val, 1, pid, name)
                     ELSE map
         IN build_listen_ports(next, ps, i + 1)

ProcessResult(pid, name, path, r, n) ==
    [pid |-> pid, name |-> name, path |-> path, mode |-> r.mode, proxy |-> r.proxy,
     country |-> r.country, detail |-> r.detail, conns_count |-> n]

\* Variant of sort_by_pid that leaves the collected order as it is.
keep_collected_order(q) == q

\* Vec::sort_by_key(|r| r.pid): a stable sort by pid.
RECURSIVE insert_by_pid(_, _)
insert_by_pid(sorted, r) ==
    IF sorted = <<>> THEN <<r>>
    ELSE IF Head(sorted).pid <= r.pid
    THEN <<Head(sorted)>> \o insert_by_pid(Tail(sorted), r)
    ELSE <<r>> \o sorted

RECURSIVE sort_by_pid(_)
sort_by_pid(q) ==
    IF q = <<>> THEN <<>>
    ELSE LET n == Len(q)
         IN insert_by_pid(sort_by_pid(SubSeq(q, 1, n - 1)), q[n])

\* filter_map(..).collect(): what the closures yielded, in the order of the
\* PIDs.
RECURSIVE collect(_, _)
collect(ps, i) ==
    IF i > Len(ps) THEN <<>>
    ELSE (IF IsSome(emitted[ps[i]]) THEN <<Unwrap(emitted[ps[i]])>> ELSE <<>>)
         \o collect(ps, i + 1)

\* Step 1: list_all_pids()?, which fails the scan or yields the PIDs.
PidOrders ==
    {o \in [ScanPids -> ScanPids] : \A i, j \in ScanPids : i # j => o[i] # o[j]}

\* Variant of ScanListPids that goes on with an empty PID list when the
\* enumeration fails.
ScanListPidsSwallowsError ==
    /\ scan_pc = "list_pids"
    /\ \E r \in {Err} \cup {Ok(o) : o \in PidOrders} :
         /\ lp_pc' = IF r.ok THEN "returned" ELSE "failed"
         /\ lp_pids' = unwrap_or_default(r)
         /\ pids' = unwrap_or_default(r)
         /\ scan_pc' = "sweep"
    /\ UNCHANGED <<ctxVars, exit_ip_cache, cache_lock, taskVars, histVars, only_routed, target_pid,
                   emitted, results, osVars, decVars, ruleVars, lp_len, lp_retries, lp_ret, lp_buf>>

\* list_all_pids is taken as one step here: lp_pc records whether it ended
\* with Err or with Ok(lp_pids).
ScanListPids ==
    /\ scan_pc = "list_pids"
    /\ \E r \in {Err} \cup {Ok(o) : o \in PidOrders} :
         IF r.ok
         THEN /\ lp_pc' = "returned"
              /\ lp_pids' = r.val
              /\ pids' = r.val
              /\ scan_pc' = "sweep"
         ELSE /\ lp_pc' = "failed"
              /\ lp_pids' = lp_pids
              /\ pids' = pids
              /\ scan_pc' = "failed"
    /\ UNCHANGED <<ctxVars, exit_ip_cache, cache_lock, taskVars, histVars, only_routed, target_pid,
                   emitted, results, osVars, decVars, ruleVars, lp_len, lp_retries, lp_ret, lp_buf>>

\* Step 2: ctx.build_listen_ports(&pids), then the parallel pass starts.
ScanBuildListenPorts ==
    /\ scan_pc = "sweep"
    /\ listen_ports' = build_listen_ports(listen_ports, pids, 1)
    /\ scan_pc' = "classify"
    /\ pc' = [t \in Tasks |-> IF t \in ScanPids THEN "start" ELSE pc[t]]
    /\ UNCHANGED <<system_proxy, default_iface, is_vpn, geo_db, probe_exit,
                   exit_ip_cache, cache_lock, sockets, conn, cache_key, probe_result, exit_ip_of, ret,
                   histVars, only_routed, target_pid, pids, emitted, results,
                   osVars, decVars, ruleVars, lpVars>>

\* Variant of the closure's start that also skips a process whose path
\* lookup fails.
ScanTaskStartNeedsPath(t) ==
    /\ scan_pc = "classify"
    /\ pc[t] = "start"
    /\ LET socks == unwrap_or_default(list_process_sockets(t))
       IN IF (IsSome(target_pid) /\ t # Unwrap(target_pid))
             \/ get_process_name(t) = None \/ get_process_path(t) = None
          THEN /\ pc' = [pc EXCEPT ![t] = "skipped"]
               /\ UNCHANGED <<sockets, emitted>>
          ELSE IF socks = <<>>
          THEN IF ~only_routed
               THEN /\ emitted' = [emitted EXCEPT ![t] =
                          Some(ProcessResult(t, Unwrap(get_process_name(t)),
                                             get_process_path(t),
                                             Result("Direct", None, None, None), 0))]
                    /\ pc' = [pc EXCEPT ![t] = "done"]
                    /\ sockets' = sockets
               ELSE /\ pc' = [pc EXCEPT ![t] = "skipped"]
                    /\ UNCHANGED <<sockets, emitted>>
          ELSE /\ sockets' = [sockets EXCEPT ![t] = socks]
               /\ pc' = [pc EXCEPT ![t] = "classify"]
               /\ emitted' = emitted
    /\ UNCHANGED <<ctxVars, exit_ip_cache, cache_lock, conn, cache_key, probe_result, exit_ip_of, ret,
                   histVars, only_routed, target_pid, scan_pc, pids, results,
                   osVars, decVars, ruleVars, lpVars>>

\* Step 3, the closure of one PID up to determine_proxy_mode (scan.rs
\* 199-252): the target filter, the name (its failure skips the process),
\* the path, the sockets, and the record of a process without sockets.
ScanTaskStart(t) ==
    /\ scan_pc = "classify"
    /\ pc[t] = "start"
    /\ LET socks == unwrap_or_default(list_process_sockets(t))
       IN IF IsSome(target_pid) /\ t # Unwrap(target_pid)
          THEN /\ pc' = [pc EXCEPT ![t] = "skipped"]
               /\ UNCHANGED <<sockets, emitted>>
          ELSE IF get_process_name(t) = None
          THEN /\ pc' = [pc EXCEPT ![t] = "skipped"]
               /\ UNCHANGED <<sockets, emitted>>
          ELSE IF socks = <<>>
          THEN IF ~only_routed
               THEN /\ emitted' = [emitted EXCEPT ![t] =
                          Some(ProcessResult(t, Unwrap(get_process_name(t)),
                                             get_process_path(t),
                                             Result("Direct", None, None, None), 0))]
                    /\ pc' = [pc EXCEPT ![t] = "done"]
                    /\ sockets' = sockets
               ELSE /\ pc' = [pc EXCEPT ![t] = "skipped"]
                    /\ UNCHANGED <<sockets, emitted>>
          ELSE /\ sockets' = [sockets EXCEPT ![t] = socks]
               /\ pc' = [pc EXCEPT ![t] = "classify"]
               /\ emitted' = emitted
    /\ UNCHANGED <<ctxVars, exit_ip_cache, cache_lock, conn, cache_key, probe_result, exit_ip_of, ret,
                   histVars, only_routed, target_pid, scan_pc, pids, results,
                   osVars, decVars, ruleVars, lpVars>>

\* Variant of ScanTaskEmit without the only-routed filter.
ScanTaskEmitUnfiltered(t) ==
    /\ scan_pc = "classify"
    /\ pc[t] = "ret"
    /\ emitted' = [emitted EXCEPT ![t] =
          Some(ProcessResult(t, Unwrap(get_process_name(t)), get_process_path(t),
                             Unwrap(ret[t]), Len(sockets[t])))]
    /\ pc' = [pc EXCEPT ![t] = "done"]
    /\ UNCHANGED <<ctxVars, exit_ip_cache, cache_lock, sockets, conn, cache_key, probe_result, exit_ip_of, ret,
                   histVars, only_routed, target_pid, scan_pc, pids, results,
                   osVars, decVars, ruleVars, lpVars>>

\* The closure after determine_proxy_mode returned (scan.rs 255-271): the
\* only-routed filter, then the record, counting every socket of the list.
ScanTaskEmit(t) ==
    /\ scan_pc = "classify"
    /\ pc[t] = "ret"
    /\ IF only_routed /\ Unwrap(ret[t]).mode = "Direct"
       THEN /\ pc' = [pc EXCEPT ![t] = "skipped"]
            /\ emitted' = emitted
       ELSE /\ emitted' = [emitted EXCEPT ![t] =
                  Some(ProcessResult(t, Unwrap(get_process_name(t)), get_process_path(t),
                                     Unwrap(ret[t]), Len(sockets[t])))]
            /\ pc' = [pc EXCEPT ![t] = "done"]
    /\ UNCHANGED <<ctxVars, exit_ip_cache, cache_lock, sockets, conn, cache_key, probe_result, exit_ip_of, ret,
                   histVars, only_routed, target_pid, scan_pc, pids, results,
                   osVars, decVars, ruleVars, lpVars>>

\* Step 4: collect, sort by PID, return Ok(results).
ScanSortAndReturn ==
    /\ scan_pc = "classify"
    /\ \A t \in ScanPids : pc[t] \in {"done", "skipped"}
    /\ results' = sort_by_pid(collect(pids, 1))
    /\ scan_pc' = "returned"
    /\ UNCHANGED <<ctxVars, exit_ip_cache, cache_lock, taskVars, histVars, only_routed, target_pid,
                   pids, emitted, osVars, decVars, ruleVars, lpVars>>

\* The processes the OS shows to a scan.
ScanSocketLists ==
    {<<>>, <<SockListenProxy>>, <<ConnSysProxy>>, <<ConnRemote>>,
     <<SockListenWildcard, SockListenLan, SockUdpLoopback, SockListen>>}

Profile(n, p, s) == [name |-> n, path |-> p, sockets |-> s]

Profiles(pid) ==
    {Profile(Some(ProcNames[pid]), Some(ProcPaths[pid]), Visible(l)) : l \in ScanSocketLists}
    \cup {Profile(None, None, Visible(<<SockListenProxy>>)),
          Profile(Some(ProcNames[pid]), None, Visible(<<ConnSysProxy>>)),
          Profile(Some(ProcNames[pid]), Some(ProcPaths[pid]), Refused)}

InitScan ==
    /\ system_proxy = HttpProxy
    /\ default_iface = En0
    /\ is_vpn = is_vpn_interface(default_iface)
    /\ listen_ports = NoListeners
    /\ geo_db = None
    /\ probe_exit \in BOOLEAN
    /\ sockets = [t \in Tasks |-> <<>>]
    /\ TaskInit({})
    /\ only_routed \in BOOLEAN
    /\ target_pid \in {None, Some(1)}
    /\ scan_pc = "list_pids"
    /\ pids = <<>>
    /\ emitted = [t \in Tasks |-> None]
    /\ results = <<>>
    /\ \E prof \in [ScanPids -> UNION {Profiles(p) : p \in ScanPids}] :
         /\ \A p \in ScanPids : prof[p] \in Profiles(p)
         /\ os_name = [t \in Tasks |-> IF t \in ScanPids THEN prof[t].name ELSE None]
         /\ os_path = [t \in Tasks |-> IF t \in ScanPids THEN prof[t].path ELSE None]
         /\ os_sockets = [t \in Tasks |-> IF t \in ScanPids THEN prof[t].sockets ELSE Refused]
    /\ NoListPids
    /\ NoDecode
    /\ NoRules

NextScan ==
    \/ ScanListPids
    \/ ScanBuildListenPorts
    \/ \E t \in ScanPids : ScanTaskStart(t)
    \/ \E t \in ScanPids : TaskStep(t)
    \/ \E t \in ScanPids : ScanTaskEmit(t)
    \/ ScanSortAndReturn

SpecScan == InitScan /\ [][NextScan]_vars

\* ------------------------------------------------------------------------
\* Properties of the scan
\* ------------------------------------------------------------------------
RecordsOf(p) == {i \in 1 .. Len(results) : results[i].pid = p}
NoFilters == target_pid = None /\ ~only_routed
OnlyListenSockets(p) ==
    /\ os_sockets[p].ok
    /\ os_sockets[p].socks # <<>>
    /\ \A i \in 1 .. Len(os_sockets[p].socks) :
          os_sockets[p].socks[i].tcp_state = Some("Listen")
SomeCallFailed(p) == os_name[p] = None \/ os_path[p] = None \/ ~os_sockets[p].ok

\* C8 as stated: with the only-routed filter off, a process whose sockets are
\* all LISTEN sockets gets a record with mode Direct and conns_count 0.
C8_ListenOnlyCountsZero ==
    (scan_pc = "returned" /\ ~only_routed) =>
        \A i \in 1 .. Len(results) :
            OnlyListenSockets(results[i].pid) =>
                (results[i].mode = "Direct" /\ results[i].conns_count = 0)

\* C9 as stated: with no filters, every enumerated PID gets a record, and a
\* PID for which any OS call failed (name, path or sockets) gets one with an
\* empty connection list and mode Direct.
C9_Original ==
    (scan_pc = "returned" /\ NoFilters) =>
        \A p \in ScanPids :
            /\ RecordsOf(p) # {}
            /\ SomeCallFailed(p) =>
                  \A i \in RecordsOf(p) :
                      results[i].mode = "Direct" /\ results[i].conns_count = 0

\* C9 amended: per-process OS failures never abort the scan and never touch
\* another PID's record. With no filters, a PID whose name lookup fails is
\* skipped (no record); every PID whose name lookup succeeds gets exactly one
\* record, with the path absent if the path lookup failed, and with an empty
\* connection list and mode Direct if the socket enumeration failed.
C9_FailuresDegradeOrSkip ==
    /\ scan_pc = "failed" => pids = <<>>
    /\ (scan_pc = "returned" /\ NoFilters) =>
          \A p \in ScanPids :
              IF os_name[p] = None THEN RecordsOf(p) = {}
              ELSE /\ Cardinality(RecordsOf(p)) = 1
                   /\ \A i \in RecordsOf(p) :
                         /\ results[i].name = Unwrap(os_name[p])
                         /\ results[i].path = os_path[p]
                         /\ ~os_sockets[p].ok =>
                               /\ results[i].mode = "Direct"
                               /\ results[i].conns_count = 0
                               /\ results[i].proxy = None
                               /\ results[i].detail = None
                               /\ results[i].country = None

\* A scan returned in which one PID's name lookup failed and was skipped,
\* while a PID whose path lookup and socket enumeration failed has its Direct
\* record.
C9_Witness ==
    /\ scan_pc = "returned" /\ NoFilters
    /\ \E p, q \in ScanPids :
          /\ os_name[p] = None /\ RecordsOf(p) = {}
          /\ os_name[q] # None /\ ~os_sockets[q].ok
          /\ \E i \in RecordsOf(q) : results[i].mode = "Direct"

\* C13: the list scan_all_processes returns is sorted by PID in ascending
\* order and holds at most one record per enumerated PID, in whatever order
\* the OS listed the PIDs and the per-process tasks ran; its records are
\* the ones the tasks yielded.
C13_SortedOnePerPid ==
    scan_pc = "returned" =>
        /\ \A i, j \in 1 .. Len(results) : i < j => results[i].pid < results[j].pid
        /\ \A p \in ScanPids : Cardinality(RecordsOf(p)) <= 1
        /\ \A i \in 1 .. Len(results) :
              /\ \E k \in 1 .. Len(pids) : pids[k] = results[i].pid
              /\ emitted[results[i].pid] = Some(results[i])
        /\ Len(results) = Cardinality({p \in ScanPids : emitted[p] # None})

\* The OS listed the PIDs in descending order, every process yielded a
\* record, and the returned list is in ascending order.
C13_Witness ==
    /\ scan_pc = "returned"
    /\ Len(results) = NPids
    /\ \A k \in 1 .. (Len(pids) - 1) : pids[k] > pids[k + 1]
    /\ results[1].pid < results[Len(results)].pid

\* C14: with a target PID set every returned record has that pid; with the
\* only-routed filter on no returned record has mode Direct, processes
\* without sockets included; with both filters off every process that got
\* as far as classification (its name lookup succeeded) has its record.
C14_ScanFilters ==
    scan_pc = "returned" =>
        /\ target_pid # None =>
              \A i \in 1 .. Len(results) : results[i].pid = Unwrap(target_pid)
        /\ only_routed =>
              \A i \in 1 .. Len(results) : results[i].mode # "Direct"
        /\ NoFilters =>
              \A p \in ScanPids : os_name[p] # None => RecordsOf(p) # {}

\* With both filters on the scan returned the one record of the target PID,
\* which is not Direct, and dropped another process that has a name and
\* sockets.
C14_Witness ==
    /\ scan_pc = "returned" /\ only_routed /\ target_pid # None
    /\ Len(results) = 1
    /\ results[1].pid = Unwrap(target_pid) /\ results[1].mode = "SystemProxy"
    /\ \E p \in ScanPids :
          /\ p # Unwrap(target_pid) /\ os_name[p] # None
          /\ os_sockets[p].ok /\ os_sockets[p].socks # <<>>

\* A socket that build_listen_ports may record: TCP, in LISTEN state, bound
\* to a loopback local address.
LoopbackListener(s) ==
    /\ s.protocol = "Tcp"
    /\ s.tcp_state = Some("Listen")
    /\ is_loopback(s.local_addr)

SocketsSeen(p) == IF os_sockets[p].ok THEN os_sockets[p].socks ELSE <<>>

LoopbackListenPortsOf(p) ==
    {SocketsSeen(p)[i].local_port :
        i \in {k \in 1 .. Len(SocketsSeen(p)) : LoopbackListener(SocketsSeen(p)[k])}}

LoopbackListenPorts == UNION {LoopbackListenPortsOf(p) : p \in ScanPids}

\* C20: after build_listen_ports every entry port -> (pid, name) of the
\* ListenPortMap comes from a TCP socket of that pid in LISTEN state, bound
\* to a loopback local address, with that local port; non-LISTEN sockets,
\* UDP sockets and listeners on non-loopback or wildcard addresses create no
\* entry.
C20_ListenPortMapEntries ==
    /\ scan_pc \in {"list_pids", "sweep", "failed"} => listen_ports = NoListeners
    /\ scan_pc \in {"classify", "returned"} =>
          /\ DOMAIN listen_ports = LoopbackListenPorts
          /\ \A port \in DOMAIN listen_ports :
                LET o == listen_ports[port]
                IN /\ o.pid \in ScanPids
                   /\ o.name = IF os_name[o.pid] # None THEN Unwrap(os_name[o.pid])
                                ELSE "unknown"
                   /\ \E i \in 1 .. Len(SocketsSeen(o.pid)) :
                         /\ LoopbackListener(SocketsSeen(o.pid)[i])
                         /\ SocketsSeen(o.pid)[i].local_port = port

\* A process held a wildcard listener, a LAN listener, a UDP socket bound to
\* loopback and a loopback listener, another held an established connection
\* from a loopback port; the map got the loopback listener's port only.
C20_Witness ==
    /\ scan_pc = "classify"
    /\ \E p, q \in ScanPids :
          /\ SocketsSeen(p) = <<SockListenWildcard, SockListenLan, SockUdpLoopback, SockListen>>
          /\ SocketsSeen(q) = <<ConnSysProxy>>
          /\ DOMAIN listen_ports = {OtherPort}
          /\ listen_ports[OtherPort].pid = p

\* C21 as stated: the ListenPortMap built by the sweep does not depend on the
\* order of the PIDs: sweeping the same processes in any order yields the
\* map that was built, also when two processes have loopback LISTEN sockets
\* on the same port.
C21_SweepOrderIndependent ==
    scan_pc \in {"classify", "returned"} =>
        \A o \in PidOrders : build_listen_ports(NoListeners, o, 1) = listen_ports

\* C12: scan_all_processes returns an error if and only if the initial PID
\* enumeration failed; then no listen-port sweep and no classification has
\* run; once the enumeration has succeeded the scan is never in its failed
\* state and every task is at a position from which it goes on, whatever
\* per-process or per-socket call fails; a task that waits for the cache
\* lock waits for a holder that is about to release it.
TaskGoesOn(t) ==
    \/ pc[t] \in {"start", "classify", "socks", "http", "done", "skipped"}
    \/ /\ pc[t] \in {"lock_read", "lock_insert"}
       /\ \/ cache_lock = None
          \/ \E u \in Tasks : cache_lock = Some(u) /\ pc[u] \in {"read", "insert"}
    \/ pc[t] \in {"read", "insert"} /\ cache_lock = Some(t) /\ cache_key[t] # None
    \/ pc[t] = "ret" /\ ret[t] # None /\ os_name[t] # None

C12_ErrorIffEnumerationFails ==
    /\ scan_pc = "failed" <=> lp_pc = "failed"
    /\ scan_pc = "failed" =>
          /\ pids = <<>> /\ results = <<>>
          /\ listen_ports = NoListeners
          /\ exit_ip_cache = {}
          /\ \A t \in Tasks : pc[t] = "idle" /\ emitted[t] = None /\ probes[t] = 0
    /\ scan_pc = "returned" => lp_pc = "returned"
    /\ lp_pc = "returned" =>
          /\ scan_pc \in {"sweep", "classify", "returned"}
          /\ scan_pc = "classify" => \A t \in ScanPids : TaskGoesOn(t)

\* The enumeration failed and the scan returned the error without looking
\* at any process, among them one whose name lookup fails and one whose
\* sockets cannot be listed.
C12_Witness ==
    /\ scan_pc = "failed" /\ lp_pc = "failed"
    /\ \E p, q \in ScanPids : os_name[p] = None /\ ~os_sockets[q].ok

\* ========================================================================
\* list_all_pids (libproc.rs 203-246)
\* ========================================================================
INITIAL_PID_COUNT == 1024
\* mem::size_of::<i32>()
SizeofPid == 4
\* libc::c_int is 32 bits wide: the largest value proc_listpids can return.
I32Max == 2147483647
Pow29 == I32Max \div 4 + 1
Pow30 == I32Max \div 2 + 1

\* (pids.len() * size_of::<i32>()) as libc::c_int: the product truncated to
\* 32 bits and read as a signed value.
buf_size(len) ==
    LET m == len % Pow30
    IN IF m >= Pow29 THEN SizeofPid * (m - Pow30) ELSE SizeofPid * m

\* What proc_listpids can return for a buffer of that many bytes: -1 on
\* error, else the bytes it filled (nothing, one entry, all but one entry,
\* the whole buffer). What it returns for a size that is not positive is
\* left open: an error, nothing, or any value of the return type.
os_listpids_returns(size) ==
    IF size > 0
    THEN {-1, 0, SizeofPid, size - SizeofPid, size}
    ELSE {-1, 0, I32Max}

\* What a slot of the buffer can hold after the call: a Vec<i32> entry.
PidSlotValues == {-1, 0, 1, 2}
PidSlots == 1 .. MaxPidSlots

\* vec![0; INITIAL_PID_COUNT]
zeroed_buffer == [i \in PidSlots |-> 0]

\* Variant of truncate that keeps the whole buffer.
truncate_keeps_all(buf, count) == buf

\* Vec::truncate(count): the leading count elements, all of them when there
\* are no more.
truncate(buf, count) ==
    SubSeq(buf, 1, IF count < Len(buf) THEN count ELSE Len(buf))

\* Variant of retain_positive that keeps PID 0.
retain_nonnegative(q) == SelectSeq(q, LAMBDA pid : pid >= 0)

\* pids.retain(|&pid| pid > 0)
retain_positive(q) == SelectSeq(q, LAMBDA pid : pid > 0)

\* Variant of grow that enlarges the buffer by a fixed step.
grow_by_initial(len) == len + INITIAL_PID_COUNT

\* pids.resize(pids.len() * 2, 0)
grow(len) == len * 2

\* proc_listpids(PROC_ALL_PIDS, 0, buf, buf_size)
ListPidsCall ==
    /\ lp_pc = "call"
    /\ lp_ret' \in os_listpids_returns(buf_size(lp_len))
    /\ lp_buf' \in [PidSlots -> PidSlotValues]
    /\ lp_pc' = "check"
    /\ UNCHANGED <<ctxVars, exit_ip_cache, cache_lock, taskVars, histVars, scanVars, osVars, decVars, ruleVars,
                   lp_len, lp_retries, lp_pids>>

\* ret < 0: bail!
ListPidsFail ==
    /\ lp_pc = "check"
    /\ lp_ret < 0
    /\ lp_pc' = "failed"
    /\ UNCHANGED <<ctxVars, exit_ip_cache, cache_lock, taskVars, histVars, scanVars, osVars, decVars, ruleVars,
                   lp_len, lp_retries, lp_ret, lp_buf, lp_pids>>

\* count >= pids.len(): double the buffer and call again.
ListPidsRetry ==
    /\ lp_pc = "check"
    /\ lp_ret >= 0
    /\ lp_ret \div SizeofPid >= lp_len
    /\ lp_len' = grow(lp_len)
    /\ lp_retries' = lp_retries + 1
    /\ lp_pc' = "call"
    /\ UNCHANGED <<ctxVars, exit_ip_cache, cache_lock, taskVars, histVars, scanVars, osVars, decVars, ruleVars, lp_ret,
                   lp_buf, lp_pids>>

\* count < pids.len(): truncate, drop the PIDs that are not positive, return.
ListPidsReturn ==
    /\ lp_pc = "check"
    /\ lp_ret >= 0
    /\ lp_ret \div SizeofPid < lp_len
    /\ lp_pids' = retain_positive(truncate(lp_buf, lp_ret \div SizeofPid))
    /\ lp_pc' = "returned"
    /\ UNCHANGED <<ctxVars, exit_ip_cache, cache_lock, taskVars, histVars, scanVars, osVars, decVars, ruleVars,
                   lp_len, lp_retries, lp_ret, lp_buf>>

InitListPids ==
    /\ system_proxy = NoSystemProxy
    /\ default_iface = En0
    /\ is_vpn = is_vpn_interface(default_iface)
    /\ listen_ports = NoListeners
    /\ geo_db = None
    /\ probe_exit = FALSE
    /\ sockets = [t \in Tasks |-> <<>>]
    /\ TaskInit({})
    /\ NoScan
    /\ NoDecode
    /\ NoRules
    /\ lp_pc = "call"
    /\ lp_len = INITIAL_PID_COUNT
    /\ lp_retries = 0
    /\ lp_ret = 0
    /\ lp_buf = zeroed_buffer
    /\ lp_pids = <<>>

NextListPids ==
    \/ ListPidsCall
    \/ ListPidsFail
    \/ ListPidsRetry
    \/ ListPidsReturn

SpecListPids == InitListPids /\ [][NextListPids]_vars

\* ------------------------------------------------------------------------
\* Properties of list_all_pids
\* ------------------------------------------------------------------------
RECURSIVE Log2(_)
Log2(n) == IF n <= 1 THEN 0 ELSE 1 + Log2(n \div 2)

RECURSIVE Pow2(_)
Pow2(n) == IF n = 0 THEN 1 ELSE 2 * Pow2(n - 1)

\* The first buffer length no returned count can reach, and the number of
\* doublings that lead to it.
MaxPidBufferLen == I32Max \div SizeofPid + 1
MaxListPidsRetries == Log2(MaxPidBufferLen \div INITIAL_PID_COUNT)

KeptSlots == {i \in PidSlots : i <= lp_ret \div SizeofPid}

\* C11: every PID in the list returned by list_all_pids is strictly greater
\* than 0, whatever the OS wrote into the buffer; the list is the positive
\* entries of the reported slots, in their order.
C11_ReturnedPidsPositive ==
    lp_pc = "returned" =>
        /\ \A i \in 1 .. Len(lp_pids) : lp_pids[i] > 0
        /\ Len(lp_pids) = Cardinality({i \in KeptSlots : lp_buf[i] > 0})
        /\ \A i \in KeptSlots :
              lp_buf[i] > 0 => \E j \in 1 .. Len(lp_pids) : lp_pids[j] = lp_buf[i]

\* The OS reported slots holding PID 0 or a negative value next to a real
\* PID, and list_all_pids returned the real PID only.
C11_Witness ==
    /\ lp_pc = "returned"
    /\ \E i, j \in KeptSlots : lp_buf[i] <= 0 /\ lp_buf[j] > 0
    /\ Len(lp_pids) = 1


\* ========================================================================
\* libproc.rs: the descriptors and the sockets of one process
\* ========================================================================
\* The targets of the program (macOS on x86_64 and arm64) are little-endian.
HostLittleEndian == TRUE

\* The value of a u16 whose two bytes in memory are b[1], b[2].
native_u16(b) ==
    IF HostLittleEndian THEN b[1] + 256 * b[2] ELSE 256 * b[1] + b[2]

\* Variant of from_be that leaves the bytes as they are.
from_be_keeps_bytes(x) == x

\* u16::from_be: the bytes are exchanged on a little-endian host.
from_be(x) == IF HostLittleEndian THEN swap_bytes(x) ELSE x

\* `as u16` on a c_int field.
as_u16(v) == v % 65536

\* What the kernel writes. A port is kept in network byte order in 16 bits
\* and widened to the int field insi_lport / insi_fport; an address fills
\* the 16 bytes of the union insi_laddr / insi_faddr, an IPv4 address its
\* last four (ina_46.i46a_addr4).
kernel_port(p) == native_u16(<<p \div 256, p % 256>>)
kernel_addr(ip) ==
    IF ip.v = 4 THEN <<0, 0, 0, 0, 0, 0, 0, 0, 0, 0, 0, 0>> \o ip.o
    ELSE [i \in 1 .. 16 |->
            IF i % 2 = 1 THEN ip.o[(i + 1) \div 2] \div 256 ELSE ip.o[i \div 2] % 256]

\* libproc.rs ipv4_to_addr: the four bytes of s_addr in memory order.
ipv4_to_addr(mem) == V4(mem[13], mem[14], mem[15], mem[16])

\* libproc.rs ipv6_to_addr: Ipv6Addr::from of the 16 bytes.
ipv6_to_addr(mem) == V6([i \in 1 .. 8 |-> mem[2 * i - 1] * 256 + mem[2 * i]])

INI_IPV4 == 1
INI_IPV6 == 2
\* vflag & flag != 0, for a flag that is a power of two.
has_flag(vflag, flag) == (vflag \div flag) % 2 = 1

\* What parse_in_sockinfo returns: (local addr, local port, remote addr,
\* remote port).
Decoded(la, lp, ra, rp) ==
    [local_addr |-> la, local_port |-> lp, remote_addr |-> ra, remote_port |-> rp]

\* libproc.rs parse_in_sockinfo
parse_in_sockinfo(in_info) ==
    IF has_flag(in_info.insi_vflag, INI_IPV4)
    THEN Some(Decoded(ipv4_to_addr(in_info.insi_laddr),
                      from_be(as_u16(in_info.insi_lport)),
                      ipv4_to_addr(in_info.insi_faddr),
                      from_be(as_u16(in_info.insi_fport))))
    ELSE IF has_flag(in_info.insi_vflag, INI_IPV6)
    THEN Some(Decoded(ipv6_to_addr(in_info.insi_laddr),
                      from_be(as_u16(in_info.insi_lport)),
                      ipv6_to_addr(in_info.insi_faddr),
                      from_be(as_u16(in_info.insi_fport))))
    ELSE None

\* TcpState::from_raw
TcpStateNames ==
    <<"Closed", "Listen", "SynSent", "SynReceived", "Established", "CloseWait",
      "FinWait1", "Closing", "LastAck", "FinWait2", "TimeWait">>
from_raw(state) ==
    IF state \in 0 .. 10 THEN TcpStateNames[state + 1] ELSE "Unknown"

SOCKINFO_IN == 1
SOCKINFO_TCP == 2
IPPROTO_UDP == 17
PROX_FDTYPE_SOCKET == 2

\* The union soi_proto as it lies in memory: pri_in and pri_tcp.tcpsi_ini
\* share the leading in_sockinfo, tcpsi_state follows it.
pri_in(soi_proto) == soi_proto.ini
pri_tcp(soi_proto) == [tcpsi_ini |-> soi_proto.ini, tcpsi_state |-> soi_proto.state]

\* libproc.rs parse_socket_info
parse_socket_info(psi) ==
    IF psi.soi_kind = SOCKINFO_TCP
    THEN LET tcp_info == pri_tcp(psi.soi_proto)
             d == parse_in_sockinfo(tcp_info.tcpsi_ini)
         IN IF d = None THEN None
            ELSE Some(SocketInfo(Unwrap(d).local_addr, Unwrap(d).local_port,
                                 Unwrap(d).remote_addr, Unwrap(d).remote_port,
                                 "Tcp", Some(from_raw(tcp_info.tcpsi_state))))
    ELSE IF psi.soi_kind = SOCKINFO_IN
    THEN IF psi.soi_protocol # IPPROTO_UDP THEN None
         ELSE LET d == parse_in_sockinfo(pri_in(psi.soi_proto))
              IN IF d = None THEN None
                 ELSE Some(SocketInfo(Unwrap(d).local_addr, Unwrap(d).local_port,
                                      Unwrap(d).remote_addr, Unwrap(d).remote_port,
                                      "Udp", None))
    ELSE None

\* What proc_pidfdinfo answers for descriptor fd of the table: the return
\* value and the record; a descriptor the table does not hold fails.
QueryFailed == [ret |-> 0, psi |-> <<>>]
os_pidfdinfo(table, fd) ==
    IF fd + 1 \in DOMAIN table THEN table[fd + 1].answer ELSE QueryFailed

\* libproc.rs get_socket_info
get_socket_info(table, fd) ==
    LET a == os_pidfdinfo(table, fd)
    IN IF a.ret <= 0 THEN None ELSE parse_socket_info(a.psi)

\* Variant of sockets_from that gives up at the first descriptor that yields
\* no record.
RECURSIVE sockets_from_stop_at_failure(_, _, _, _)
sockets_from_stop_at_failure(table, fds, i, acc) ==
    IF i > Len(fds) THEN acc
    ELSE IF fds[i].proc_fdtype # PROX_FDTYPE_SOCKET
    THEN sockets_from_stop_at_failure(table, fds, i + 1, acc)
    ELSE LET s == get_socket_info(table, fds[i].proc_fd)
         IN IF IsSome(s)
            THEN sockets_from_stop_at_failure(table, fds, i + 1, Append(acc, Unwrap(s)))
            ELSE acc

\* The loop of list_process_sockets over the descriptors from the i-th on.
RECURSIVE sockets_from(_, _, _, _)
sockets_from(table, fds, i, acc) ==
    IF i > Len(fds) THEN acc
    ELSE IF fds[i].proc_fdtype # PROX_FDTYPE_SOCKET
    THEN sockets_from(table, fds, i + 1, acc)
    ELSE LET s == get_socket_info(table, fds[i].proc_fd)
         IN IF IsSome(s)
            THEN sockets_from(table, fds, i + 1, Append(acc, Unwrap(s)))
            ELSE sockets_from(table, fds, i + 1, acc)

\* ------------------------------------------------------------------------
\* What the OS may hold for a process. A descriptor is its type, the answer
\* of proc_pidfdinfo for it, and the socket it stands for (None when it is
\* none the program reports).
\* ------------------------------------------------------------------------
KernelSocket(kind, protocol, vflag, la, lp, ra, rp, state) ==
    [ret |-> 1,
     psi |-> [soi_kind |-> kind, soi_protocol |-> protocol,
              soi_proto |->
                 [ini |-> [insi_vflag |-> vflag,
                           insi_lport |-> kernel_port(lp),
                           insi_fport |-> kernel_port(rp),
                           insi_laddr |-> kernel_addr(la),
                           insi_faddr |-> kernel_addr(ra)],
                  state |-> state]]]

Descriptor(fdtype, answer, socket) ==
    [proc_fdtype |-> fdtype, answer |-> answer, socket |-> socket]

DecodePorts == {0, WebPort, ProxyPort, SwappedProxyPort, 65535}
Unspec6 == V6(<<0, 0, 0, 0, 0, 0, 0, 0>>)

\* A TCP listener on 127.0.0.1:p.
DescTcp4(p) ==
    Descriptor(PROX_FDTYPE_SOCKET,
               KernelSocket(SOCKINFO_TCP, 6, INI_IPV4, Lo4, p, Unspec4, 0, 1),
               Some(SocketInfo(Lo4, p, Unspec4, 0, "Tcp", Listen)))
\* An established TCP connection from [::1]:50000 to [::1]:p.
DescTcp6(p) ==
    Descriptor(PROX_FDTYPE_SOCKET,
               KernelSocket(SOCKINFO_TCP, 6, INI_IPV6, Lo6, EphemeralPort, Lo6, p, 4),
               Some(SocketInfo(Lo6, EphemeralPort, Lo6, p, "Tcp", Established)))
\* A UDP socket towards a public address.
DescUdp4 ==
    Descriptor(PROX_FDTYPE_SOCKET,
               KernelSocket(SOCKINFO_IN, IPPROTO_UDP, INI_IPV4, LanIp, EphemeralPort,
                            PublicIp, WebPort, 0),
               Some(SocketInfo(LanIp, EphemeralPort, PublicIp, WebPort, "Udp", None)))
\* An open file.
DescVnode == Descriptor(1, QueryFailed, None)
\* A socket whose information query fails.
DescQueryFails == Descriptor(PROX_FDTYPE_SOCKET, QueryFailed, None)
\* A Unix-domain socket: its kind is neither TCP nor generic inet.
DescUnix ==
    Descriptor(PROX_FDTYPE_SOCKET,
               KernelSocket(3, 0, 0, Unspec4, 0, Unspec4, 0, 0), None)
\* A raw ICMP socket: generic inet, protocol not UDP.
DescRawIcmp ==
    Descriptor(PROX_FDTYPE_SOCKET,
               KernelSocket(SOCKINFO_IN, 1, INI_IPV4, Unspec4, 0, Unspec4, 0, 0), None)
\* A TCP socket whose version flag has neither the IPv4 nor the IPv6 bit.
DescNoVersion ==
    Descriptor(PROX_FDTYPE_SOCKET,
               KernelSocket(SOCKINFO_TCP, 6, 0, Lo4, ProxyPort, Unspec4, 0, 1), None)
\* A TCP socket in a state the program does not know.
DescTcpOddState ==
    Descriptor(PROX_FDTYPE_SOCKET,
               KernelSocket(SOCKINFO_TCP, 6, INI_IPV4, Lo4, EphemeralPort, Lo4, ProxyPort, 11),
               Some(SocketInfo(Lo4, EphemeralPort, Lo4, ProxyPort, "Tcp", Some("Unknown"))))

\* A TCP listener on [::]:8080 that also takes IPv4 connections: both
\* version flags are set, and the program reads it through the IPv4 arm.
DescTcp46 ==
    Descriptor(PROX_FDTYPE_SOCKET,
               KernelSocket(SOCKINFO_TCP, 6, INI_IPV4 + INI_IPV6, Unspec6, OtherPort,
                            Unspec6, 0, 1),
               Some(SocketInfo(Unspec4, OtherPort, Unspec4, 0, "Tcp", Listen)))

DescriptorUniverse ==
    {DescTcp4(p) : p \in DecodePorts} \cup {DescTcp6(p) : p \in DecodePorts}
    \cup {DescUdp4, DescVnode, DescQueryFails, DescUnix, DescRawIcmp, DescNoVersion,
          DescTcpOddState, DescTcp46}


\* ------------------------------------------------------------------------
\* list_process_fds and list_process_sockets, one step per call to the OS.
\* ------------------------------------------------------------------------
MaxFds == 2
SizeofFdinfo == 8
FdMargin == 16
Pow28 == Pow29 \div 2

\* (fds.len() * size_of::<proc_fdinfo>()) as i32
fd_buf_size(len) ==
    LET m == len % Pow29
    IN IF m >= Pow28 THEN SizeofFdinfo * (m - Pow29) ELSE SizeofFdinfo * m

\* What proc_pidinfo(PROC_PIDLISTFDS) can return without a buffer: -1, or
\* a size in bytes, a whole number of entries or not.
Phase1Returns ==
    {-1} \cup {SizeofFdinfo * n + r : n \in 0 .. MaxFds, r \in {0, SizeofFdinfo \div 2}}

\* What it can return with a buffer of that many bytes: -1, or the bytes of
\* the entries it wrote, as many as the table holds and the buffer takes.
entries_written(table, size) ==
    IF size <= 0 THEN 0
    ELSE IF Len(table) < size \div SizeofFdinfo THEN Len(table)
    ELSE size \div SizeofFdinfo
os_listfds_returns(table, size) == {-1, SizeofFdinfo * entries_written(table, size)}

\* The buffer after the call: the entries written, then what resize put
\* there (proc_fdinfo::default()).
fd_buffer(table, len, written) ==
    [i \in 1 .. len |->
        IF i <= written
        THEN [proc_fd |-> i - 1, proc_fdtype |-> table[i].proc_fdtype]
        ELSE [proc_fd |-> 0, proc_fdtype |-> 0]]

\* list_process_fds, phase 1: the size query.
ListFdsPhase1 ==
    /\ fd_pc = "phase1"
    /\ \E needed_size \in Phase1Returns :
         /\ fd_needed' = needed_size
         /\ IF needed_size < 0
            THEN /\ fd_fds' = Ok(<<>>)
                 /\ fd_pc' = "listed"
                 /\ fd_cap' = fd_cap
            ELSE IF needed_size = 0
            THEN /\ fd_fds' = Ok(<<>>)
                 /\ fd_pc' = "listed"
                 /\ fd_cap' = fd_cap
            ELSE /\ fd_cap' = needed_size \div SizeofFdinfo + FdMargin
                 /\ fd_pc' = "phase2"
                 /\ fd_fds' = fd_fds
    /\ UNCHANGED <<ctxVars, exit_ip_cache, cache_lock, taskVars, histVars, scanVars,
                   osVars, lpVars, ruleVars, fd_table, fd_ret, fd_socks>>

\* list_process_fds, phase 2: the listing into the resized buffer, and the
\* truncation to what the OS reported.
ListFdsPhase2 ==
    /\ fd_pc = "phase2"
    /\ \E r \in os_listfds_returns(fd_table, fd_buf_size(fd_cap)) :
         /\ fd_ret' = r
         /\ fd_fds' =
              IF r < 0 THEN Ok(<<>>)
              ELSE Ok(truncate(fd_buffer(fd_table, fd_cap, r \div SizeofFdinfo),
                               r \div SizeofFdinfo))
    /\ fd_pc' = "listed"
    /\ UNCHANGED <<ctxVars, exit_ip_cache, cache_lock, taskVars, histVars, scanVars,
                   osVars, lpVars, ruleVars, fd_table, fd_needed, fd_cap, fd_socks>>

\* list_process_sockets: the loop over the descriptors returned.
ListProcessSockets ==
    /\ fd_pc = "listed"
    /\ fd_socks' = IF fd_fds.ok THEN Ok(sockets_from(fd_table, fd_fds.val, 1, <<>>))
                   ELSE Err
    /\ fd_pc' = "done"
    /\ UNCHANGED <<ctxVars, exit_ip_cache, cache_lock, taskVars, histVars, scanVars,
                   osVars, lpVars, ruleVars, fd_table, fd_needed, fd_cap, fd_ret, fd_fds>>

\* ------------------------------------------------------------------------
\* SpecDecode: list_process_sockets on a process holding any table of up to
\* MaxFds descriptors, or one of more descriptors than the buffer takes.
\* ------------------------------------------------------------------------
CrowdedTable ==
    [i \in 1 .. (MaxFds + FdMargin + 1) |->
        IF i % 2 = 1 THEN DescVnode ELSE DescTcp4(ProxyPort)]

FdTables == SeqsUpTo(DescriptorUniverse, MaxFds) \cup {CrowdedTable}

InitDecode ==
    /\ system_proxy = NoSystemProxy
    /\ default_iface = En0
    /\ is_vpn = is_vpn_interface(default_iface)
    /\ listen_ports = NoListeners
    /\ geo_db = None
    /\ probe_exit = FALSE
    /\ sockets = [t \in Tasks |-> <<>>]
    /\ TaskInit({})
    /\ NoScan
    /\ NoListPids
    /\ NoRules
    /\ fd_pc = "phase1"
    /\ fd_table \in FdTables
    /\ fd_needed = 0
    /\ fd_cap = 0
    /\ fd_ret = 0
    /\ fd_fds = Ok(<<>>)
    /\ fd_socks = Ok(<<>>)

NextDecode ==
    \/ ListFdsPhase1
    \/ ListFdsPhase2
    \/ ListProcessSockets

SpecDecode == InitDecode /\ [][NextDecode]_vars

\* ------------------------------------------------------------------------
\* Properties of the decoding
\* ------------------------------------------------------------------------
\* The descriptor of the table behind the i-th entry returned.
Behind(i) == fd_table[fd_fds.val[i].proc_fd + 1]

\* The descriptor is a socket whose query succeeds, of kind TCP or of kind
\* generic inet with protocol UDP, and with the IPv4 or the IPv6 flag (or
\* both) set.
Decodable(d) ==
    /\ d.proc_fdtype = PROX_FDTYPE_SOCKET
    /\ d.answer.ret > 0
    /\ \/ d.answer.psi.soi_kind = SOCKINFO_TCP
       \/ d.answer.psi.soi_kind = SOCKINFO_IN /\ d.answer.psi.soi_protocol = IPPROTO_UDP
    /\ \/ has_flag(d.answer.psi.soi_proto.ini.insi_vflag, INI_IPV4)
       \/ has_flag(d.answer.psi.soi_proto.ini.insi_vflag, INI_IPV6)

\* The indices of the returned descriptors that are decodable, in order.
RECURSIVE DecodableFrom(_)
DecodableFrom(i) ==
    IF i > Len(fd_fds.val) THEN <<>>
    ELSE IF Decodable(Behind(i)) THEN <<i>> \o DecodableFrom(i + 1)
    ELSE DecodableFrom(i + 1)

\* C22: a port the kernel record carries in network byte order is decoded
\* to its host-order value: every record returned has the local and the
\* remote port of the socket it stands for, for IPv4 and for IPv6 records
\* alike, whatever its addresses are.
C22_PortDecoding ==
    /\ \A p \in DecodePorts : from_be(as_u16(kernel_port(p))) = p
    /\ fd_pc = "done" =>
          LET idx == DecodableFrom(1)
          IN /\ Len(fd_socks.val) = Len(idx)
             /\ \A k \in DOMAIN idx :
                   /\ fd_socks.val[k].local_port =
                          Unwrap(Behind(idx[k]).socket).local_port
                   /\ fd_socks.val[k].remote_port =
                          Unwrap(Behind(idx[k]).socket).remote_port

\* An IPv4 listener on port 7890 and an IPv6 connection to port 7890, whose
\* records hold the port as a different number, were both decoded to 7890.
C22_Witness ==
    /\ fd_pc = "done"
    /\ fd_table = <<DescTcp4(ProxyPort), DescTcp6(ProxyPort)>>
    /\ kernel_port(ProxyPort) # ProxyPort
    /\ Len(fd_socks.val) = 2
    /\ fd_socks.val[1].local_addr.v = 4 /\ fd_socks.val[1].local_port = ProxyPort
    /\ fd_socks.val[2].remote_addr.v = 6 /\ fd_socks.val[2].remote_port = ProxyPort

\* C27: a descriptor that is no socket, whose query fails, whose kind is
\* neither TCP nor generic inet with UDP, or whose version flag is neither
\* IPv4 nor IPv6 contributes no record, and every other socket descriptor
\* returned contributes its own: the result is, in order, the socket of each
\* decodable descriptor, read from the arm its kind and version flag select.
C27_DecodeFailuresIsolated ==
    fd_pc = "done" =>
        LET idx == DecodableFrom(1)
        IN /\ fd_socks.ok
           /\ fd_socks.val = [k \in DOMAIN idx |-> Unwrap(Behind(idx[k]).socket)]
           /\ \A i \in DOMAIN fd_fds.val :
                 ~Decodable(Behind(i)) => Behind(i).socket = None

\* A socket whose query fails comes before an IPv6 TCP connection: the
\* result is the connection alone.
C27_Witness ==
    /\ fd_pc = "done"
    /\ Len(fd_fds.val) = 2
    /\ Behind(1) = DescQueryFails
    /\ Behind(2) = DescTcp6(WebPort)
    /\ fd_socks.val = <<SocketInfo(Lo6, EphemeralPort, Lo6, WebPort, "Tcp", Established)>>

\* C28: list_process_fds never fails: a negative or zero size in phase 1, or
\* a negative return in phase 2, gives the empty list; otherwise the buffer
\* of phase 2 has the entry count of phase 1 plus a margin of 16, and the
\* list returned has exactly the entries the OS reported in phase 2, the
\* leading ones of the table, never more than the buffer holds.
C28_FdEnumeration ==
    fd_pc \in {"listed", "done"} =>
        /\ fd_fds.ok
        /\ IF fd_needed <= 0 THEN fd_fds.val = <<>>
           ELSE IF fd_ret < 0 THEN fd_fds.val = <<>>
           ELSE /\ fd_cap = fd_needed \div SizeofFdinfo + FdMargin
                /\ Len(fd_fds.val) = fd_ret \div SizeofFdinfo
                /\ Len(fd_fds.val) <= fd_cap
                /\ Len(fd_fds.val) <= Len(fd_table)
                /\ \A i \in DOMAIN fd_fds.val :
                      /\ fd_fds.val[i].proc_fd = i - 1
                      /\ fd_fds.val[i].proc_fdtype = fd_table[i].proc_fdtype

\* The table holds more descriptors than the buffer takes: the list has as
\* many entries as the buffer.
C28_Witness ==
    /\ fd_pc = "done"
    /\ fd_needed > 0 /\ fd_ret > 0
    /\ Len(fd_table) > fd_cap
    /\ Len(fd_fds.val) = fd_cap


\* ========================================================================
\* rule/manager.rs and rule/formatter.rs: the policy files
\* ========================================================================
\* Text is a sequence of tokens: the characters of a process name one by
\* one, and the fixed pieces the formatters write as one token each. A file
\* is a sequence of lines.
Policies == <<"Direct", "Proxy", "Reject">>
PolicySet == {Policies[i] : i \in DOMAIN Policies}
Rule(rule_type, value, policy) ==
    [rule_type |-> rule_type, value |-> value, policy |-> policy]

\* str::trim on a line: the blanks at both ends are dropped.
RECURSIVE trim_start(_)
trim_start(s) ==
    IF s # <<>> /\ Head(s) = " " THEN trim_start(Tail(s)) ELSE s
RECURSIVE trim_end(_)
trim_end(s) ==
    IF s # <<>> /\ s[Len(s)] = " " THEN trim_end(SubSeq(s, 1, Len(s) - 1)) ELSE s
trim(s) == trim_end(trim_start(s))

\* str::split(','): the pieces between the commas.
RECURSIVE split(_, _)
split(s, sep) ==
    IF \E i \in DOMAIN s : s[i] = sep
    THEN LET i == CHOOSE k \in DOMAIN s :
                     s[k] = sep /\ \A j \in DOMAIN s : s[j] = sep => k <= j
         IN <<SubSeq(s, 1, i - 1)>> \o split(SubSeq(s, i + 1, Len(s)), sep)
    ELSE <<s>>

starts_with(s, prefix) ==
    Len(s) >= Len(prefix) /\ SubSeq(s, 1, Len(prefix)) = prefix

\* The keyword a rule type is written with in Clash and Surge files.
TypeKeywords ==
    [IpCidr |-> "IP-CIDR", DomainSuffix |-> "DOMAIN-SUFFIX", Domain |-> "DOMAIN",
     ProcessName |-> "PROCESS-NAME"]
RuleTypes == DOMAIN TypeKeywords

\* ClashFormatter / SurgeFormatter / SingBoxFormatter :: format_rule, for the
\* rule types whose value is written as it is.
SingBoxOpen == "    { \"process_name\": [\""
SingBoxClose == "\"] }"
format_rule(format, rule) ==
    CASE format = "Clash" ->
            <<" ", " ", "-", " ", TypeKeywords[rule.rule_type], ",">> \o rule.value
      [] format = "Surge" -> <<TypeKeywords[rule.rule_type], ",">> \o rule.value
      [] format = "SingBox" -> <<SingBoxOpen>> \o rule.value \o <<SingBoxClose>>

HeaderLine == <<"#", " proxy-audit generated rules">>
FormatRules(format, rules) == [i \in DOMAIN rules |-> format_rule(format, rules[i])]

\* Formatter::generate_file_content
generate_file_content(format, rules) ==
    CASE format = "Clash" ->
            IF rules = <<>> THEN <<HeaderLine, <<"payload: []">>>>
            ELSE <<HeaderLine, <<"payload:">>>> \o FormatRules(format, rules)
      [] format = "Surge" -> <<HeaderLine>> \o FormatRules(format, rules)
      [] format = "SingBox" ->
            <<(<<"{">>), (<<"  \"version\": 1,">>), (<<"  \"rules\": [">>)>>
            \o FormatRules(format, rules) \o <<(<<"  ]">>), (<<"}">>)>>

\* manager.rs parse_clash_rule_line: TYPE,VALUE with both pieces trimmed;
\* the policy is that of the file.
parse_clash_rule_line(line, policy) ==
    LET parts == split(line, ",")
    IN IF Len(parts) >= 2
       THEN LET kw == trim(parts[1])
                types == {ty \in RuleTypes : kw = <<TypeKeywords[ty]>>}
            IN IF types = {} THEN None
               ELSE Some(Rule(CHOOSE ty \in types : TRUE, trim(parts[2]), policy))
       ELSE None

\* The rules of the lines, each line read by parse_line, in order.
rules_of_lines(lines, parse_line(_)) ==
    LET parsed == SelectSeq([i \in DOMAIN lines |-> parse_line(lines[i])],
                            LAMBDA r : r # None)
    IN [i \in DOMAIN parsed |-> Unwrap(parsed[i])]

\* manager.rs parse_clash_rules: the lines that start with "- ".
parse_clash_rules(content, policy) ==
    LET parse_line(raw) ==
            LET line == trim(raw)
            IN IF starts_with(line, <<"-", " ">>)
               THEN parse_clash_rule_line(SubSeq(line, 3, Len(line)), policy)
               ELSE None
    IN rules_of_lines(content, parse_line)

\* manager.rs parse_surge_rules: every line that is neither empty nor a
\* comment.
parse_surge_rules(content, policy) ==
    LET parse_line(raw) ==
            LET line == trim(raw)
            IN IF line = <<>> \/ Head(line) = "#" THEN None
               ELSE parse_clash_rule_line(line, policy)
    IN rules_of_lines(content, parse_line)

\* The name written between the brackets of a rule object.
SingBoxName(line) == SubSeq(line, 2, Len(line) - 1)
IsRuleObject(line) == line # <<>> /\ Head(line) = SingBoxOpen

\* serde_json::from_str on the file: a name with a double quote in it ends
\* the string literal early, and the text is no JSON.
ValidJson(content) ==
    \A i \in DOMAIN content :
        IsRuleObject(content[i]) =>
            \A k \in DOMAIN SingBoxName(content[i]) : SingBoxName(content[i])[k] # "\""

\* manager.rs parse_singbox_rules: the process_name entries of the rule
\* objects; a file that is no JSON reads as no rules (unwrap_or_default).
parse_singbox_rules(content, policy) ==
    LET parse_line(line) ==
            IF IsRuleObject(line)
            THEN Some(Rule("ProcessName", SingBoxName(line), policy))
            ELSE None
    IN IF ValidJson(content) THEN rules_of_lines(content, parse_line) ELSE <<>>

\* manager.rs read_rules; a file that does not exist is None.
read_rules(format, file, policy) ==
    IF file = None THEN <<>>
    ELSE CASE format = "Clash" -> parse_clash_rules(Unwrap(file), policy)
           [] format = "Surge" -> parse_surge_rules(Unwrap(file), policy)
           [] format = "SingBox" -> parse_singbox_rules(Unwrap(file), policy)

\* rules.retain(..): the process-name rules of that name are dropped.
retain_other(rules, process_name) ==
    SelectSeq(rules, LAMBDA r : ~(r.rule_type = "ProcessName" /\ r.value = process_name))

\* The body of the loop of add_rule for the policy file p.
rewritten_file(format, file, p, process_name, policy) ==
    LET kept == retain_other(read_rules(format, file, p), process_name)
        rules == IF p = policy
                 THEN Append(kept, Rule("ProcessName", process_name, p))
                 ELSE kept
    IN Some(generate_file_content(format, rules))

\* ------------------------------------------------------------------------
\* SpecRules: up to MaxRuleCalls calls of add_rule, for one of the formats
\* Clash, Surge and Sing-box or for Quantumult X, on processes whose names
\* are plain, hold a comma, or hold a double quote.
\* ------------------------------------------------------------------------
MaxRuleCalls == 3
FileFormats == {"Clash", "Surge", "SingBox"}
RuleNames == {<<"a">>, <<"a", ",", "b">>, <<"a", "\"", "b">>}
\* What get_process_name gives for the PID: nothing, an empty name, a name.
NameOutcomes == {None, Some(<<>>)} \cup {Some(n) : n \in RuleNames}
RuleCall(format, name, policy, ok) ==
    [format |-> format, name |-> name, policy |-> policy, ok |-> ok]

\* manager.rs add_rule
AddRule ==
    /\ rule_format \in FileFormats
    /\ rule_calls < MaxRuleCalls
    /\ rule_calls' = rule_calls + 1
    /\ \E name \in NameOutcomes, policy \in PolicySet,
          format \in {rule_format, "QuantumultX"} :
         IF name = None \/ name = Some(<<>>)
         THEN /\ rule_call' = Some(RuleCall(format, name, policy, FALSE))
              /\ UNCHANGED <<rule_files, rule_last>>
         ELSE IF format = "QuantumultX"
         THEN /\ rule_call' = Some(RuleCall(format, name, policy, TRUE))
              /\ UNCHANGED <<rule_files, rule_last>>
         ELSE /\ rule_call' = Some(RuleCall(format, name, policy, TRUE))
              /\ rule_files' =
                    [p \in PolicySet |->
                        rewritten_file(format, rule_files[p], p, Unwrap(name), policy)]
              /\ rule_last' = [rule_last EXCEPT ![Unwrap(name)] = Some(policy)]
    /\ UNCHANGED <<ctxVars, exit_ip_cache, cache_lock, taskVars, histVars, scanVars,
                   osVars, lpVars, decVars, rule_format>>

\* manager.rs init: the policy files that do not exist are created empty.
RuleInit ==
    /\ rule_format \in FileFormats
    /\ \E p \in PolicySet : rule_files[p] = None
    /\ rule_files' =
          [p \in PolicySet |->
              IF rule_files[p] = None
              THEN Some(generate_file_content(rule_format, <<>>))
              ELSE rule_files[p]]
    /\ UNCHANGED <<ctxVars, exit_ip_cache, cache_lock, taskVars, histVars, scanVars,
                   osVars, lpVars, decVars, rule_format, rule_last, rule_calls, rule_call>>

InitRules ==
    /\ system_proxy = NoSystemProxy
    /\ default_iface = En0
    /\ is_vpn = is_vpn_interface(default_iface)
    /\ listen_ports = NoListeners
    /\ geo_db = None
    /\ probe_exit = FALSE
    /\ sockets = [t \in Tasks |-> <<>>]
    /\ TaskInit({})
    /\ NoScan
    /\ NoListPids
    /\ NoDecode
    /\ rule_format \in FileFormats
    /\ rule_files = [p \in PolicySet |-> None]
    /\ rule_last = [n \in RuleNames |-> None]
    /\ rule_calls = 0
    /\ rule_call = None

NextRules ==
    \/ AddRule
    \/ RuleInit

SpecRules == InitRules /\ [][NextRules]_vars

\* ------------------------------------------------------------------------
\* Properties of the policy files
\* ------------------------------------------------------------------------
\* The lines of the policy file that are the process-name rule of that name,
\* as the formatter of the format writes it.
RulesFor(files, name, p) ==
    IF files[p] = None THEN <<>>
    ELSE SelectSeq(Unwrap(files[p]),
                   LAMBDA line : line = format_rule(rule_format,
                                                    Rule("ProcessName", name, p)))

\* C30 as stated: after any sequence of successful add_rule calls for a
\* format other than Quantumult X, every process name has a process-name rule
\* in at most one of the three policy files of the format; a name add_rule
\* was called for has it in the file of the policy of its most recent call,
\* exactly once; and add_rule for Quantumult X changes no file.
C30_RuleFilesMutuallyExclusive ==
    [][/\ \A n \in RuleNames :
             Cardinality({p \in PolicySet : RulesFor(rule_files', n, p) # <<>>}) <= 1
       /\ \A n \in RuleNames : rule_last'[n] # None =>
             Len(RulesFor(rule_files', n, Unwrap(rule_last'[n]))) = 1
       /\ (rule_call' # rule_call /\ rule_call' # None
             /\ Unwrap(rule_call').format = "QuantumultX") => rule_files' = rule_files
      ]_vars

====
